---- MODULE Spec2Model ----
(***************************************************************************)
(* The tsv (timescale_vector) index access method: the meta page, the      *)
(* build pipeline, the single-row insert and the streaming index scan.     *)
(*                                                                         *)
(* Vectors are one-dimensional (a coordinate in 0..MaxCoord), the distance *)
(* is the squared L2 distance, and max_alpha is held in tenths (10 = 1.0). *)
(* graph.rs (Graph::insert, greedy search, prune_neighbors and             *)
(* ListSearchResult) is not part of the available sources: the operators   *)
(* that stand for it follow the written design of the graph core.          *)
(***************************************************************************)
EXTENDS Integers, Sequences, FiniteSets, Bags, TLC

(* ------------------------------ bounds --------------------------------- *)

MaxCoord == 3

MaxRows == 3

MaxTraverseRows == 4

MaxNumNeighbors == 2

MaxSearchListSize == 2

MaxRescans == 2

MaxTombstones == 1

NodesPerPage == 2

\* samples below which PQ training fails (about 300 in the design)
MinPqSamples == 2

\* largest valid small number of dimensions, and largest pq_vector_length
MaxDims == 4

MaxPqVectorLength == 3

\* single-row inserts that follow a build of MaxRows rows
MaxInserts == 1

\* rows of the indexes whose meta page is fetched and updated
MaxMetaRows == 2

\* cap on the count of migrations
MaxMigrations == 2

\* rows of the builds and scans that the host may cancel
MaxCancelRows == 2

\* backends that update the meta page at the same time
MaxBackends == 2

\* largest num_neighbors for which the slack of the build is computed
MaxSlackNeighbors == 1000

(* ------------------------- program constants --------------------------- *)

InvalidOffsetNumber == 0

TSV_MAGIC_NUMBER == 768756476

TSV_VERSION == 2

\* the version MetaPageV1::page_get_meta asserts
TSV_VERSION_V1 == 1

\* ambuild: dimensions > 0 && dimensions < 2000
MAX_DIMENSIONS == 2000

GRAPH_SLACK_FACTOR_X10 == 13

META_BLOCK_NUMBER == 0

META_HEADER_OFFSET == 1

META_OFFSET == 2

DEBUG1 == 14

(* ------------------------------ helpers -------------------------------- *)

NullVec == 0 - 1

Coords == 0 .. MaxCoord

Range(s) == {s[k] : k \in DOMAIN s}

Min2(a, b) == IF a <= b THEN a ELSE b

\* distance_fn of the storage: squared L2 on one-dimensional vectors
Distance(a, b) == (a - b) * (a - b)

\* ItemPointer::new
ItemPointer(b, o) == [block_number |-> b, offset |-> o]

\* Tape::write: node number i (in creation order) lands on block 1 + (i-1) div
\* NodesPerPage; block 0 is the meta page
IndexPointerOf(i) == ItemPointer(1 + ((i - 1) \div NodesPerPage), 1 + ((i - 1) % NodesPerPage))

\* the heap row number k of the host table
HeapPointerOf(k) == ItemPointer(0, k)

\* the item that holds the codebook or the means: its page follows the node
\* pages that the bounds allow
QuantizerPointer == ItemPointer(2 + MaxTraverseRows, 1)

NodeAt(ip) == CHOOSE i \in 1 .. (ip.block_number * NodesPerPage) : IndexPointerOf(i) = ip

\* the order of ListSearchNeighbor / NeighborWithDistance: distance, then pointer
Closer(vecs, q, a, b) ==
    \/ Distance(vecs[a], q) < Distance(vecs[b], q)
    \/ Distance(vecs[a], q) = Distance(vecs[b], q) /\ a < b

RECURSIVE SortByDistance(_, _, _)
SortByDistance(S, vecs, q) ==
    IF S = {} THEN <<>>
    ELSE LET m == CHOOSE a \in S : \A b \in S \ {a} : Closer(vecs, q, a, b)
         IN <<m>> \o SortByDistance(S \ {m}, vecs, q)

Prefix(s, n) == SubSeq(s, 1, Min2(Len(s), n))

(* ------------------------- f64 arithmetic ------------------------------ *)

\* a natural number as its binary digits, least significant first
RECURSIVE Bits(_)
Bits(n) == IF n = 0 THEN <<>> ELSE <<n % 2>> \o Bits(n \div 2)

RECURSIVE BitsValue(_)
BitsValue(bs) == IF bs = <<>> THEN 0 ELSE Head(bs) + 2 * BitsValue(Tail(bs))

RECURSIVE BitsAdd(_, _, _)
BitsAdd(a, b, carry) ==
    IF a = <<>> /\ b = <<>> THEN (IF carry = 0 THEN <<>> ELSE <<carry>>)
    ELSE LET x == IF a = <<>> THEN 0 ELSE Head(a)
             y == IF b = <<>> THEN 0 ELSE Head(b)
         IN <<(x + y + carry) % 2>>
                \o BitsAdd(IF a = <<>> THEN <<>> ELSE Tail(a),
                           IF b = <<>> THEN <<>> ELSE Tail(b), (x + y + carry) \div 2)

\* the digits of a sequence of column sums, carries propagated upwards
RECURSIVE BitsCarry(_, _, _)
BitsCarry(cols, k, carry) ==
    IF k > Len(cols) THEN <<>>
    ELSE LET t == cols[k] + carry
         IN <<t % 2>> \o BitsCarry(cols, k + 1, t \div 2)

\* the product of two digit sequences: the column sums of the schoolbook
\* multiplication, then the carries
BitsMul(a, b) ==
    LET n == Len(a) + Len(b)
        cols == [k \in 1 .. n |-> Cardinality({ i \in 1 .. Len(a) :
                    a[i] = 1 /\ (k + 1 - i) \in 1 .. Len(b) /\ b[k + 1 - i] = 1 })]
        raw == BitsCarry(cols, 1, 0)
        top == CHOOSE k \in 0 .. n :
                   (k = 0 \/ raw[k] = 1) /\ \A j \in (k + 1) .. n : raw[j] = 0
    IN SubSeq(raw, 1, top)

\* an f64 (positive, normal) is a significand m of at most 53 binary digits and
\* an exponent e: its value is m * 2^e.  "n as f64" is exact for a u32
U32AsF64(n) == [m |-> Bits(n), e |-> 0]

\* GRAPH_SLACK_FACTOR: f64 = 1.3, the f64 nearest to 1.3: 0x3FF4CCCCCCCCCCCD,
\* significand 0x14CCCCCCCCCCCD, exponent -52
GRAPH_SLACK_FACTOR ==
    [m |-> <<1, 0, 1, 1>> \o [k \in 1 .. 44 |-> IF k % 4 \in {1, 2} THEN 0 ELSE 1]
              \o <<0, 0, 1, 0, 1>>,
     e |-> 0 - 52]

\* the f64 product: the exact product rounded to 53 digits, to nearest, ties
\* to even
F64Mul(x, y) ==
    LET p == BitsMul(x.m, y.m)
        s == Len(p) - 53
    IN IF s <= 0 THEN [m |-> p, e |-> x.e + y.e]
       ELSE LET q == SubSeq(p, s + 1, Len(p))
                up == p[s] = 1 /\ (q[1] = 1 \/ \E k \in 1 .. s - 1 : p[k] = 1)
            IN [m |-> IF up THEN BitsAdd(q, <<1>>, 0) ELSE q, e |-> x.e + y.e + s]

\* f64::ceil followed by "as usize", for values with a negative exponent
F64CeilAsUsize(x) ==
    LET k == 0 - x.e
    IN BitsValue(SubSeq(x.m, k + 1, Len(x.m)))
          + (IF \E i \in 1 .. Min2(k, Len(x.m)) : x.m[i] = 1 THEN 1 ELSE 0)

(* ------------------------------ MetaPage ------------------------------- *)

\* a create that takes the build's search list size for the number of neighbors
MetaPageCreateSwapped(num_dimensions, o) ==
    [ magic_number          |-> TSV_MAGIC_NUMBER,
      version               |-> TSV_VERSION,
      num_dimensions        |-> num_dimensions,
      num_neighbors         |-> o.search_list_size,
      search_list_size      |-> o.search_list_size,
      max_alpha             |-> o.max_alpha,
      init_ids_block_number |-> 0,
      init_ids_offset       |-> 0,
      use_pq                |-> o.use_pq,
      pq_vector_length      |-> o.pq_vector_length,
      pq_block_number       |-> 0,
      pq_block_offset       |-> 0,
      use_bq                |-> o.use_bq ]

\* MetaPage::create: the value written to page 0 and returned
MetaPageCreate(num_dimensions, o) ==
    [ magic_number          |-> TSV_MAGIC_NUMBER,
      version               |-> TSV_VERSION,
      num_dimensions        |-> num_dimensions,
      num_neighbors         |-> o.num_neighbors,
      search_list_size      |-> o.search_list_size,
      max_alpha             |-> o.max_alpha,
      init_ids_block_number |-> 0,
      init_ids_offset       |-> 0,
      use_pq                |-> o.use_pq,
      pq_vector_length      |-> o.pq_vector_length,
      pq_block_number       |-> 0,
      pq_block_offset       |-> 0,
      use_bq                |-> o.use_bq ]

\* WritablePage::add_item on a page that holds count items: the offset of the
\* new item, offsets being numbered from 1 in the order of the additions
PageAddItem(count) == count + 1

\* a write_to_page that stamps the header with the old version
WriteToPageOldHeader(m) ==
    [ type   |-> "Meta",
      header |-> [magic_number |-> m.magic_number, version |-> TSV_VERSION_V1],
      body   |-> m,
      header_offset |-> PageAddItem(0),
      body_offset   |-> PageAddItem(1) ]

\* a write_to_page that adds the body before the header
WriteToPageBodyFirst(m) ==
    [ type   |-> "Meta",
      header |-> [magic_number |-> m.magic_number, version |-> m.version],
      body   |-> m,
      header_offset |-> PageAddItem(1),
      body_offset   |-> PageAddItem(0) ]

\* MetaPage::write_to_page on an empty page of type Meta: the header is the
\* first item added, the body the second
WriteToPage(m) ==
    [ type   |-> "Meta",
      header |-> [magic_number |-> m.magic_number, version |-> m.version],
      body   |-> m,
      header_offset |-> PageAddItem(0),
      body_offset   |-> PageAddItem(1) ]

\* the zero-filled page 0 of a relation that has no page yet
NoPage ==
    [ type   |-> "None",
      header |-> [magic_number |-> 0, version |-> 0],
      header_offset |-> 0,
      body_offset   |-> 0,
      body   |-> MetaPageCreate(0, [num_neighbors |-> 0, search_list_size |-> 0,
                                    max_alpha |-> 0, use_pq |-> FALSE,
                                    pq_vector_length |-> 0, use_bq |-> FALSE]) ]

\* a get_storage_type that lets use_bq win
GetStorageTypeBqFirst(m) ==
    IF m.use_bq THEN "BqSpeedup"
    ELSE IF m.use_pq THEN "PqCompression"
    ELSE "Plain"

\* MetaPage::get_storage_type
GetStorageType(m) ==
    IF m.use_pq THEN "PqCompression"
    ELSE IF m.use_bq THEN "BqSpeedup"
    ELSE "Plain"

\* a slack computed by truncation: (num_neighbors * 1.3) as usize
GetMaxNeighborsDuringBuildTruncated(m) ==
    LET x == F64Mul(U32AsF64(m.num_neighbors), GRAPH_SLACK_FACTOR)
    IN BitsValue(SubSeq(x.m, (0 - x.e) + 1, Len(x.m)))

\* MetaPage::get_max_neighbors_during_build:
\* ((self.num_neighbors as f64) * GRAPH_SLACK_FACTOR).ceil() as usize
GetMaxNeighborsDuringBuild(m) ==
    F64CeilAsUsize(F64Mul(U32AsF64(m.num_neighbors), GRAPH_SLACK_FACTOR))

\* a get_init_ids that returns None as soon as one stored field is zero
GetInitIdsEitherZero(m) ==
    IF m.init_ids_block_number = 0 \/ m.init_ids_offset = 0 THEN <<>>
    ELSE <<ItemPointer(m.init_ids_block_number, m.init_ids_offset)>>

\* MetaPage::get_init_ids: None is the empty sequence
GetInitIds(m) ==
    IF m.init_ids_block_number = 0 /\ m.init_ids_offset = 0 THEN <<>>
    ELSE <<ItemPointer(m.init_ids_block_number, m.init_ids_offset)>>

\* an update_init_ids that stores the block number and leaves the offset
UpdateInitIdsBlockOnly(page, init_ids) ==
    [page EXCEPT !.body.init_ids_block_number = init_ids[1].block_number]

\* an update_init_ids that writes the block number over the dimensions
UpdateInitIdsOverDims(page, init_ids) ==
    [page EXCEPT !.body.num_dimensions = init_ids[1].block_number,
                 !.body.init_ids_offset = init_ids[1].offset]

\* MetaPage::update_init_ids on the page: only the two init-id fields of the body
UpdateInitIds(page, init_ids) ==
    [page EXCEPT !.body.init_ids_block_number = init_ids[1].block_number,
                 !.body.init_ids_offset = init_ids[1].offset]

\* MetaPage::read / the non-migrating branch of MetaPage::fetch
GetMetaFromPage(page) == page.body

\* a get_meta_from_page that checks the header item only
MetaPageValidHeaderOnly(page) ==
    /\ page.header.magic_number = TSV_MAGIC_NUMBER
    /\ page.header.version = TSV_VERSION

\* the assertions of get_meta_from_page on the header item and on the body item
MetaPageValid(page) ==
    /\ page.header.magic_number = TSV_MAGIC_NUMBER
    /\ page.header.version = TSV_VERSION
    /\ page.body.magic_number = TSV_MAGIC_NUMBER
    /\ page.body.version = TSV_VERSION

\* MetaPage::get_pq_pointer: None is the empty sequence
GetPqPointer(m) ==
    IF (~m.use_pq /\ ~m.use_bq) \/ (m.pq_block_number = 0 /\ m.pq_block_offset = 0)
    THEN <<>>
    ELSE <<ItemPointer(m.pq_block_number, m.pq_block_offset)>>

\* an update_pq_pointer that also clears the init ids
UpdatePqPointerClearsInitIds(page, pq_pointer) ==
    [page EXCEPT !.body.pq_block_number = pq_pointer.block_number,
                 !.body.pq_block_offset = pq_pointer.offset,
                 !.body.init_ids_block_number = 0,
                 !.body.init_ids_offset = 0]

\* MetaPage::update_pq_pointer on the page: only the two quantizer fields of the body
UpdatePqPointer(page, pq_pointer) ==
    [page EXCEPT !.body.pq_block_number = pq_pointer.block_number,
                 !.body.pq_block_offset = pq_pointer.offset]

\* a MetaPageV1 as extension versions <= 0.0.2 wrote it: the layout without use_bq
MetaPageV1(num_dimensions, o, init_ids, pq_pointer) ==
    [ magic_number          |-> TSV_MAGIC_NUMBER,
      version               |-> TSV_VERSION_V1,
      num_dimensions        |-> num_dimensions,
      num_neighbors         |-> o.num_neighbors,
      search_list_size      |-> o.search_list_size,
      max_alpha             |-> o.max_alpha,
      init_ids_block_number |-> init_ids.block_number,
      init_ids_offset       |-> init_ids.offset,
      use_pq                |-> o.use_pq,
      pq_vector_length      |-> o.pq_vector_length,
      pq_block_number       |-> pq_pointer.block_number,
      pq_block_offset       |-> pq_pointer.offset ]

\* a page 0 of type MetaV1: the struct is the page contents, there are no items
PageV1(old_meta) == [type |-> "MetaV1", contents |-> old_meta]

\* the assertions of MetaPageV1::page_get_meta
PageGetMetaValid(page) ==
    /\ page.contents.magic_number = TSV_MAGIC_NUMBER
    /\ page.contents.version = TSV_VERSION_V1

\* a get_new_meta that turns binary quantization on for an index without
\* product quantization
GetNewMetaBqDefault(old) ==
    [ magic_number          |-> TSV_MAGIC_NUMBER,
      version               |-> TSV_VERSION,
      num_dimensions        |-> old.num_dimensions,
      num_neighbors         |-> old.num_neighbors,
      search_list_size      |-> old.search_list_size,
      max_alpha             |-> old.max_alpha,
      init_ids_block_number |-> old.init_ids_block_number,
      init_ids_offset       |-> old.init_ids_offset,
      use_pq                |-> old.use_pq,
      pq_vector_length      |-> old.pq_vector_length,
      pq_block_number       |-> old.pq_block_number,
      pq_block_offset       |-> old.pq_block_offset,
      use_bq                |-> ~old.use_pq ]

\* a get_new_meta that forgets where the quantizer is
GetNewMetaDropsPqPointer(old) ==
    [ magic_number          |-> TSV_MAGIC_NUMBER,
      version               |-> TSV_VERSION,
      num_dimensions        |-> old.num_dimensions,
      num_neighbors         |-> old.num_neighbors,
      search_list_size      |-> old.search_list_size,
      max_alpha             |-> old.max_alpha,
      init_ids_block_number |-> old.init_ids_block_number,
      init_ids_offset       |-> old.init_ids_offset,
      use_pq                |-> old.use_pq,
      pq_vector_length      |-> old.pq_vector_length,
      pq_block_number       |-> 0,
      pq_block_offset       |-> 0,
      use_bq                |-> FALSE ]

\* MetaPageV1::get_new_meta
GetNewMeta(old) ==
    [ magic_number          |-> TSV_MAGIC_NUMBER,
      version               |-> TSV_VERSION,
      num_dimensions        |-> old.num_dimensions,
      num_neighbors         |-> old.num_neighbors,
      search_list_size      |-> old.search_list_size,
      max_alpha             |-> old.max_alpha,
      init_ids_block_number |-> old.init_ids_block_number,
      init_ids_offset       |-> old.init_ids_offset,
      use_pq                |-> old.use_pq,
      pq_vector_length      |-> old.pq_vector_length,
      pq_block_number       |-> old.pq_block_number,
      pq_block_offset       |-> old.pq_block_offset,
      use_bq                |-> FALSE ]

\* an overwrite that leaves the page type as it was
OverwriteKeepsType(new_meta) == [WriteToPage(new_meta) EXCEPT !.type = "MetaV1"]

\* MetaPage::overwrite: the page after reinit and write_to_page
Overwrite(new_meta) == WriteToPage(new_meta)

\* MetaPage::overwrite: the checks on the page read back
OverwriteVerified(new_meta) ==
    /\ Overwrite(new_meta).type = "Meta"
    /\ MetaPageValid(Overwrite(new_meta))
    /\ GetMetaFromPage(Overwrite(new_meta)) = new_meta

\* MetaPage::fetch takes the migration branch
FetchMigrates(page) == page.type = "MetaV1"

\* MetaPage::fetch: the assertions and errors on its path
FetchOk(page) ==
    IF FetchMigrates(page)
    THEN PageGetMetaValid(page) /\ OverwriteVerified(GetNewMeta(page.contents))
    ELSE MetaPageValid(page)

\* MetaPage::fetch: the value returned
FetchMeta(page) ==
    IF FetchMigrates(page) THEN GetNewMeta(page.contents) ELSE GetMetaFromPage(page)

\* MetaPage::fetch: page 0 afterwards
FetchPage(page) ==
    IF FetchMigrates(page) THEN Overwrite(GetNewMeta(page.contents)) ELSE page

(* ----------------------------- graph core ------------------------------ *)

\* GraphNeighborStore::max_neighbors: the Builder cache keeps the slack, the
\* Disk store has num_neighbors slots per node
MaxNeighborsOfStore(store, m) ==
    IF store = "Builder" THEN GetMaxNeighborsDuringBuild(m) ELSE m.num_neighbors

\* robust prune of the candidates cands (sorted by distance to the node at
\* vector p) to at most R entries
RECURSIVE RobustPruneLoop(_, _, _, _, _, _)
RobustPruneLoop(cands, out, vecs, p, R, alpha) ==
    IF cands = <<>> \/ Len(out) >= R THEN out
    ELSE LET best == Head(cands)
             keep(c) == ~(alpha * Distance(vecs[best], vecs[c]) <= 10 * Distance(p, vecs[c]))
         IN RobustPruneLoop(SelectSeq(Tail(cands), keep), Append(out, best),
                            vecs, p, R, alpha)

\* a prune that keeps the closest candidates whatever their mutual distances
PruneNeighborsClosestOnly(S, vecs, p, m) ==
    Prefix(SortByDistance(S, vecs, p), m.num_neighbors)

\* Graph::prune_neighbors: target R = num_neighbors, slack max_alpha
PruneNeighbors(S, vecs, p, m) ==
    RobustPruneLoop(SortByDistance(S, vecs, p), <<>>, vecs, p, m.num_neighbors, m.max_alpha)

\* greedy search with a list truncated to L; returns the visited set
RECURSIVE GreedySearchLoop(_, _, _, _, _, _)
GreedySearchLoop(nb, vecs, q, L, list, visited) ==
    LET unvisited == {k \in 1 .. Min2(Len(list), L) : list[k] \notin visited}
    IN IF unvisited = {} THEN visited
       ELSE LET k == CHOOSE x \in unvisited : \A y \in unvisited : x <= y
                n == list[k]
                fresh == {c \in Range(nb[n]) : c \notin Range(list) /\ c \notin visited}
                list2 == Prefix(SortByDistance(Range(list) \cup fresh, vecs, q), L)
            IN GreedySearchLoop(nb, vecs, q, L, list2, visited \cup {n})

GreedySearchForBuild(nb, vecs, q, init, L) ==
    GreedySearchLoop(nb, vecs, q, L, SortByDistance(init, vecs, q), {})

\* a back edge that is added to the list of the new node's neighbor as an edge
\* to that neighbor itself
UpdateBackPointerToSelf(list, target, new, vecs, m, maxn) ==
    LET appended == Append(list, target)
    IN IF Len(appended) > maxn
       THEN PruneNeighbors(Range(appended), vecs, vecs[target], m)
       ELSE appended

\* a back edge target -> new: appended, and the list re-pruned on overflow
UpdateBackPointer(list, target, new, vecs, m, maxn) ==
    LET appended == Append(list, new)
    IN IF Len(appended) > maxn
       THEN PruneNeighbors(Range(appended), vecs, vecs[target], m)
       ELSE appended

\* Graph::insert on the neighbor map nb (node -> neighbor list): the map after
\* the insert of node new, whose vector is vecs[new]; init is the set of init ids
GraphInsert(nb, vecs, new, init, m, maxn) ==
    IF init = {} THEN (new :> <<>>) @@ nb
    ELSE LET V == GreedySearchForBuild(nb, vecs, vecs[new], init, m.search_list_size)
             mine == PruneNeighbors(V, vecs, vecs[new], m)
         IN [i \in DOMAIN nb \cup {new} |->
                IF i = new THEN mine
                ELSE IF i \in Range(mine)
                     THEN UpdateBackPointer(nb[i], i, new, vecs, m, maxn)
                     ELSE nb[i]]

\* Graph::insert, its write to page 0: the first node (no init id in the meta page
\* the graph holds) becomes the only init id
GraphInsertPage(page, m, new) ==
    IF GetInitIds(m) = <<>> THEN UpdateInitIds(page, <<IndexPointerOf(new)>>) ELSE page

\* Graph::insert, the meta page the graph holds afterwards: read again from page 0
\* when the init id was written
GraphInsertMeta(page, m) ==
    IF GetInitIds(m) = <<>> THEN GetMetaFromPage(page) ELSE m

(* ------------------------------- state --------------------------------- *)

VARIABLES
    opt,          \* TSVIndexOptions of the index relation
    dims,         \* atttypmod of the indexed column
    heap,         \* the rows of the host table: a coordinate or NullVec
    page0,        \* page 0 of the index relation
    nodes,        \* the Node pages: node i is at IndexPointerOf(i)
    phase,        \* "new", "build" (inside ambuild's heap scan), "built", "failed"
    ntuples,      \* BuildState.ntuples
    bs_meta,      \* BuildState.meta_page
    graph_meta,   \* the MetaPage the build's Graph holds (mp2)
    builder,      \* BuilderNeighborCache: node -> neighbor list
    num_nodes,    \* WriteStats.num_nodes
    lastCall,     \* the last access-method call and what it returned
    scan,         \* the IndexScanDesc: "none", "open", "ended", "aborted"
    storage,      \* TSVScanState.storage: "null" or "iter" (a live StorageState)
    iter,         \* the TSVResponseIterator the scan state points to
    pins,         \* the bag of blocks pinned by buffers the iterator holds
    orphan_pins,  \* pins of iterators the scan state no longer points to
    pc,           \* position inside amgettuple: "idle", "next" or "pin"
    item,         \* the item consume returned, while next handles it
    pending,      \* buffer operations of the last_buffer assignment still to run
    returned,     \* the nodes this iterator returned, in order
    rescans,      \* number of amrescan calls on the scan
    samples,      \* the vectors handed to add_sample, in order
    trainings,    \* number of finish_training calls
    scanpos,      \* rows the running heap pass of ambuild has delivered
    fetched,      \* the MetaPage the last create or fetch returned
    migrations,   \* number of times fetch took its MetaV1 branch
    interrupt_pending,       \* the host's InterruptPending flag
    current_context,         \* CurrentMemoryContext: "caller" or "build" (BuildState.memcxt)
    query_search_list_size,  \* the runtime setting TSV_QUERY_SEARCH_LIST_SIZE
    latch,        \* the backend that holds the exclusive buffer lock of page 0, 0 for none
    backend,      \* each concurrent backend's position in its meta page update
    observed,     \* the init id and quantizer pointer the last reader found on page 0
    committed     \* the init id and quantizer pointer of the last committed updates

trainVars == <<samples, trainings>>

metaVars == <<fetched, migrations>>

hostVars == <<interrupt_pending, query_search_list_size>>

latchVars == <<latch, backend, observed, committed>>

\* the host state and the concurrent backends, which a call of one backend on
\* an unlatched page leaves alone
envVars == <<hostVars, current_context, latchVars>>

buildVars == <<opt, dims, heap, page0, nodes, phase, ntuples, bs_meta, graph_meta,
               builder, num_nodes, samples, trainings, scanpos, fetched, migrations>>

scanVars == <<scan, storage, iter, pins, orphan_pins, pc, item, pending, returned, rescans>>

vars == <<opt, dims, heap, page0, nodes, phase, ntuples, bs_meta, graph_meta,
          builder, num_nodes, lastCall, scan, storage, iter, pins, orphan_pins,
          pc, item, pending, returned, rescans, samples, trainings, scanpos,
          fetched, migrations, interrupt_pending, current_context,
          query_search_list_size, latch, backend, observed, committed>>

Vecs(ns) == [i \in DOMAIN ns |-> ns[i].vec]

DiskNeighbors(ns) == [i \in DOMAIN ns |-> ns[i].nbrs]

InitIdSet(m) == {NodeAt(ip) : ip \in Range(GetInitIds(m))}

Alphas == {10, 12}

PlainOptions ==
    { [num_neighbors |-> n, search_list_size |-> l, max_alpha |-> a,
       use_pq |-> FALSE, pq_vector_length |-> 0, use_bq |-> FALSE] :
        n \in 1 .. MaxNumNeighbors, l \in 1 .. MaxSearchListSize, a \in Alphas }

\* what an access-method call returned: kind is its outcome, node and
\* heap_pointer the tuple amgettuple put in xs_heaptid, meta_reads the number of
\* MetaPage::read calls it made, arg and key the norderbys and the order-by key of
\* amrescan (arg is the log level for amendscan)
Call(op, kind) ==
    [op |-> op, kind |-> kind, node |-> 0, heap_pointer |-> ItemPointer(0, 0),
     meta_reads |-> 0, arg |-> 0, key |-> 0]

\* the iterator fields of a scan state that points to no StorageState
NoIter ==
    [query |-> 0, search_list_size |-> 0, cands |-> <<>>, visited |-> {}, seen |-> {},
     current |-> 0, last_buffer |-> <<>>]

NoItem == [node |-> 0, heap_pointer |-> ItemPointer(0, 0), index_pointer |-> ItemPointer(0, 0)]

Backends == 1 .. MaxBackends

\* a backend that is not inside a meta page update
IdleBackend == [pc |-> "idle", op |-> "none", pointer |-> ItemPointer(0, 0)]

NoPointers == [init_ids |-> ItemPointer(0, 0), pq_pointer |-> ItemPointer(0, 0)]

\* the host at the start: no interrupt pending, the caller's memory context
\* current, page 0 unlatched and no backend inside an update
InitEnv ==
    /\ interrupt_pending = FALSE
    /\ current_context = "caller"
    /\ query_search_list_size = MaxSearchListSize
    /\ latch = 0
    /\ backend = [b \in Backends |-> IdleBackend]
    /\ observed = NoPointers
    /\ committed = NoPointers

\* a relation without pages and without a scan
InitIndex ==
    /\ heap = <<>>
    /\ page0 = NoPage
    /\ nodes = <<>>
    /\ phase = "new"
    /\ ntuples = 0
    /\ bs_meta = NoPage.body
    /\ graph_meta = NoPage.body
    /\ builder = <<>>
    /\ num_nodes = 0
    /\ lastCall = Call("none", "ok")
    /\ scan = "none"
    /\ storage = "null"
    /\ iter = NoIter
    /\ pins = EmptyBag
    /\ orphan_pins = EmptyBag
    /\ pc = "idle"
    /\ item = NoItem
    /\ pending = <<>>
    /\ returned = <<>>
    /\ rescans = 0
    /\ samples = <<>>
    /\ trainings = 0
    /\ scanpos = 0
    /\ fetched = NoPage.body
    /\ migrations = 0
    /\ InitEnv

Init ==
    /\ opt \in {o \in PlainOptions : o.search_list_size >= o.num_neighbors}
    /\ dims \in {1}
    /\ InitIndex

(* ------------------------------- build --------------------------------- *)

\* checks that let through a number of dimensions pq_vector_length does not divide
AmbuildRejectsShortOnly(dimensions, o) ==
    \/ o.use_pq /\ dimensions < o.pq_vector_length
    \/ ~(dimensions > 0 /\ dimensions < MAX_DIMENSIONS)

\* ambuild's checks of the dimensions against the options; the checks of
\* use_pq come first
AmbuildRejects(dimensions, o) ==
    \/ o.use_pq /\ (dimensions < o.pq_vector_length
                       \/ dimensions % o.pq_vector_length # 0)
    \/ ~(dimensions > 0 /\ dimensions < MAX_DIMENSIONS)

\* ambuild up to the start of the first heap scan: the checks, MetaPage::create,
\* then do_heap_scan sets up the Graph over a clone of the meta page; a Plain
\* build goes to its only pass, a PQ or BQ build to the training pass
AmbuildStart ==
    /\ phase = "new"
    /\ IF AmbuildRejects(dims, opt)
       THEN /\ phase' = "failed"
            /\ lastCall' = Call("ambuild", "error")
            /\ UNCHANGED <<page0, bs_meta, graph_meta, fetched>>
       ELSE LET meta_page == MetaPageCreate(dims, opt)
            IN /\ page0' = WriteToPage(meta_page)
               /\ bs_meta' = meta_page
               /\ graph_meta' = meta_page
               /\ fetched' = meta_page
               /\ phase' = IF GetStorageType(meta_page) = "Plain" THEN "build" ELSE "train"
               /\ lastCall' = Call("ambuild", "scanning")
    /\ ntuples' = 0
    /\ builder' = <<>>
    /\ scanpos' = 0
    /\ UNCHANGED <<opt, dims, heap, nodes, num_nodes, samples, trainings, migrations>>
    /\ UNCHANGED <<scanVars, envVars>>

\* a training callback that samples every row
BuildCallbackTrainSamplesNull(v) ==
    /\ phase = "train"
    /\ heap' = Append(heap, v)
    /\ scanpos' = scanpos + 1
    /\ samples' = Append(samples, v)
    /\ lastCall' = Call("build_callback_train", "ok")
    /\ UNCHANGED <<opt, dims, page0, nodes, phase, ntuples, bs_meta, graph_meta, builder,
                   num_nodes, trainings, fetched, migrations>>
    /\ UNCHANGED <<scanVars, envVars>>

\* build_callback_pq_train / build_callback_bq_train: one row of the first pass
BuildCallbackTrain(v) ==
    /\ phase = "train"
    /\ heap' = Append(heap, v)
    /\ scanpos' = scanpos + 1
    /\ samples' = IF v = NullVec THEN samples ELSE Append(samples, v)
    /\ lastCall' = Call("build_callback_train", "ok")
    /\ UNCHANGED <<opt, dims, page0, nodes, phase, ntuples, bs_meta, graph_meta, builder,
                   num_nodes, trainings, fetched, migrations>>
    /\ UNCHANGED <<scanVars, envVars>>

\* Storage::finish_training of the PQ storage fails on too few samples
FinishTrainingFails(m, sampled) ==
    GetStorageType(m) = "PqCompression" /\ Len(sampled) < MinPqSamples

\* Storage::finish_training writes the codebook or the means and makes the meta
\* page point to them
FinishTrainingPage(page) == UpdatePqPointer(page, QuantizerPointer)

\* the end of the first heap scan of a PQ or BQ build: finish_training, then
\* BuildState::new and the second heap scan starts
FinishTraining ==
    /\ phase = "train"
    /\ trainings' = trainings + 1
    /\ scanpos' = 0
    /\ IF FinishTrainingFails(bs_meta, samples)
       THEN /\ phase' = "failed"
            /\ lastCall' = Call("ambuild", "error")
            /\ UNCHANGED page0
       ELSE /\ phase' = "build"
            /\ lastCall' = Call("finish_training", "ok")
            /\ page0' = FinishTrainingPage(page0)
    /\ UNCHANGED <<opt, dims, heap, nodes, ntuples, bs_meta, graph_meta, builder, num_nodes,
                   samples, fetched, migrations>>
    /\ UNCHANGED <<scanVars, envVars>>

\* IndexBuildHeapScan hands the next row to the callback: in the second pass of
\* a PQ or BQ build a row the first pass has seen, else a further row of the table
HeapScanNext(v) ==
    IF trainings > 0
    THEN /\ scanpos < Len(heap)
         /\ v = heap[scanpos + 1]
         /\ heap' = heap
    ELSE heap' = Append(heap, v)

\* S::page_type() of the storage S of a storage type
StoragePageType(storage_type) == [page_type_of |-> storage_type]

\* Storage::create_node: a node with no neighbor yet, appended to the tape
\* on a page of the tape's page type
CreateNode(ns, vector, heap_pointer, page_type) ==
    Append(ns, [vec |-> vector, heap_pointer |-> heap_pointer, nbrs |-> <<>>,
                page_type |-> page_type])

\* a build_callback_internal that hands graph.insert the pointer of the tape
\* position after the node it has written
BuildCallbackInternalInsertsAhead(vector, heap_pointer) ==
    LET ns == CreateNode(nodes, vector, heap_pointer,
                         StoragePageType(GetStorageType(bs_meta)))
        new == Len(ns) + 1
    IN /\ ntuples' = ntuples + 1
       /\ nodes' = ns
       /\ builder' = GraphInsert(builder, Append(Vecs(ns), vector), new,
                                 InitIdSet(graph_meta), graph_meta,
                                 MaxNeighborsOfStore("Builder", graph_meta))
       /\ page0' = GraphInsertPage(page0, graph_meta, new)
       /\ graph_meta' = GraphInsertMeta(page0', graph_meta)

\* build_callback_internal: count the row, create its node, insert it in the graph
BuildCallbackInternal(vector, heap_pointer) ==
    LET ns == CreateNode(nodes, vector, heap_pointer,
                         StoragePageType(GetStorageType(bs_meta)))
        new == Len(ns)
    IN /\ ntuples' = ntuples + 1
       /\ nodes' = ns
       /\ builder' = GraphInsert(builder, Vecs(ns), new, InitIdSet(graph_meta), graph_meta,
                                 MaxNeighborsOfStore("Builder", graph_meta))
       /\ page0' = GraphInsertPage(page0, graph_meta, new)
       /\ graph_meta' = GraphInsertMeta(page0', graph_meta)

\* build_callback_memory_wrapper: the build context is made current, then
\* build_callback_internal runs.  check_for_interrupts is its first statement:
\* a pending interrupt is raised there and unwinds through the wrapper, whose
\* last two statements (the old context made current again, the reset of the
\* build context) run only when build_callback_internal returns
BuildCallbackMemoryWrapper(vector, heap_pointer) ==
    IF interrupt_pending
    THEN /\ current_context' = "tsv build context"
         /\ interrupt_pending' = FALSE
         /\ phase' = "failed"
         /\ lastCall' = Call("build_callback", "interrupted")
         /\ UNCHANGED <<ntuples, nodes, builder, page0, graph_meta>>
    ELSE /\ BuildCallbackInternal(vector, heap_pointer)
         /\ lastCall' = Call("build_callback", "ok")
         /\ UNCHANGED <<current_context, interrupt_pending, phase>>

\* a build_callback that counts a row before it looks at its vector
BuildCallbackCountsNulls(v) ==
    /\ phase = "build"
    /\ HeapScanNext(v)
    /\ scanpos' = scanpos + 1
    /\ IF v = NullVec
       THEN /\ ntuples' = ntuples + 1
            /\ lastCall' = Call("build_callback", "ok")
            /\ UNCHANGED <<nodes, builder, page0, graph_meta>>
            /\ UNCHANGED <<current_context, interrupt_pending, phase>>
       ELSE BuildCallbackMemoryWrapper(v, HeapPointerOf(scanpos + 1))
    /\ UNCHANGED <<opt, dims, bs_meta, num_nodes, samples, trainings, fetched, migrations>>
    /\ UNCHANGED <<scanVars, query_search_list_size, latchVars>>

\* build_callback: one row of the heap scan; a null vector is skipped, any
\* other goes through the memory wrapper
BuildCallback(v) ==
    /\ phase = "build"
    /\ HeapScanNext(v)
    /\ scanpos' = scanpos + 1
    /\ IF v = NullVec
       THEN /\ lastCall' = Call("build_callback", "ok")
            /\ UNCHANGED <<ntuples, nodes, builder, page0, graph_meta>>
            /\ UNCHANGED <<current_context, interrupt_pending, phase>>
       ELSE BuildCallbackMemoryWrapper(v, HeapPointerOf(scanpos + 1))
    /\ UNCHANGED <<opt, dims, bs_meta, num_nodes, samples, trainings, fetched, migrations>>
    /\ UNCHANGED <<scanVars, query_search_list_size, latchVars>>

\* a finalize that writes the Builder lists as they are
FinalizeNeighborsUnpruned(neighbors, i, vecs) == neighbors

\* a finalize that prunes every Builder list
FinalizeNeighborsAlwaysPruned(neighbors, i, vecs) ==
    PruneNeighbors(Range(neighbors), vecs, vecs[i], graph_meta)

\* the list finalize_index_build hands to finalize_node_at_end_of_build
FinalizeNeighbors(neighbors, i, vecs) ==
    IF Len(neighbors) > graph_meta.num_neighbors
    THEN PruneNeighbors(Range(neighbors), vecs, vecs[i], graph_meta)
    ELSE neighbors

\* finalize_index_build after the last heap scan, and the return of ambuild
FinalizeIndexBuild ==
    /\ phase = "build"
    /\ scanpos = Len(heap)
    /\ num_nodes' = Cardinality(DOMAIN builder)
    /\ nodes' = [i \in DOMAIN nodes |->
                    IF i \in DOMAIN builder
                    THEN [nodes[i] EXCEPT !.nbrs = FinalizeNeighbors(builder[i], i, Vecs(nodes))]
                    ELSE nodes[i]]
    /\ IF num_nodes' = ntuples
       THEN /\ phase' = "built"
            /\ lastCall' = Call("ambuild", "ok")
       ELSE /\ phase' = "failed"
            /\ lastCall' = Call("ambuild", "panic")
    /\ UNCHANGED <<opt, dims, heap, page0, ntuples, bs_meta, graph_meta, builder, samples,
                   trainings, scanpos, fetched, migrations>>
    /\ UNCHANGED <<scanVars, envVars>>

(* --------------------------- single-row insert ------------------------- *)

\* an insert_storage whose Graph is over the Builder neighbor store
InsertStorageOverBuilder(vector, heap_pointer, meta_page) ==
    LET ns == CreateNode(nodes, vector, heap_pointer,
                         StoragePageType(GetStorageType(meta_page)))
        new == Len(ns)
        nb == GraphInsert(DiskNeighbors(nodes), Vecs(ns), new, InitIdSet(meta_page),
                          meta_page, MaxNeighborsOfStore("Builder", meta_page))
    IN /\ nodes' = [i \in DOMAIN ns |-> [ns[i] EXCEPT !.nbrs = nb[i]]]
       /\ page0' = GraphInsertPage(FetchPage(page0), meta_page, new)

\* insert_storage: create_node on a fresh tape, then Graph::insert over the
\* Disk neighbor store with the meta page fetched by aminsert
InsertStorage(vector, heap_pointer, meta_page) ==
    LET ns == CreateNode(nodes, vector, heap_pointer,
                         StoragePageType(GetStorageType(meta_page)))
        new == Len(ns)
        nb == GraphInsert(DiskNeighbors(nodes), Vecs(ns), new, InitIdSet(meta_page),
                          meta_page, MaxNeighborsOfStore("Disk", meta_page))
    IN /\ nodes' = [i \in DOMAIN ns |-> [ns[i] EXCEPT !.nbrs = nb[i]]]
       /\ page0' = GraphInsertPage(FetchPage(page0), meta_page, new)

\* an aminsert that fails on a null vector
AminsertNullFails(v) ==
    /\ phase = "built"
    /\ scan = "none"
    /\ heap' = Append(heap, v)
    /\ IF v = NullVec \/ ~FetchOk(page0)
       THEN /\ lastCall' = Call("aminsert", "panic")
            /\ UNCHANGED <<nodes, page0, fetched, migrations>>
       ELSE /\ InsertStorage(v, HeapPointerOf(Len(heap) + 1), FetchMeta(page0))
            /\ fetched' = FetchMeta(page0)
            /\ migrations' = migrations + (IF FetchMigrates(page0) THEN 1 ELSE 0)
            /\ lastCall' = Call("aminsert", "false")
    /\ UNCHANGED <<opt, dims, phase, ntuples, bs_meta, graph_meta, builder, num_nodes,
                   samples, trainings, scanpos>>
    /\ UNCHANGED <<scanVars, envVars>>

\* aminsert: a null vector returns at once; else MetaPage::fetch (which migrates
\* a MetaV1 page), then insert_storage
Aminsert(v) ==
    /\ phase = "built"
    /\ scan = "none"
    /\ heap' = Append(heap, v)
    /\ IF v = NullVec
       THEN /\ lastCall' = Call("aminsert", "false")
            /\ UNCHANGED <<nodes, page0, fetched, migrations>>
       ELSE IF ~FetchOk(page0)
       THEN /\ lastCall' = Call("aminsert", "panic")
            /\ UNCHANGED <<nodes, page0, fetched, migrations>>
       ELSE /\ InsertStorage(v, HeapPointerOf(Len(heap) + 1), FetchMeta(page0))
            /\ fetched' = FetchMeta(page0)
            /\ migrations' = migrations + (IF FetchMigrates(page0) THEN 1 ELSE 0)
            /\ lastCall' = Call("aminsert", "false")
    /\ UNCHANGED <<opt, dims, phase, ntuples, bs_meta, graph_meta, builder, num_nodes,
                   samples, trainings, scanpos>>
    /\ UNCHANGED <<scanVars, envVars>>

\* ArchivedData::delete: the heap pointer of a node is marked deleted
Tombstone(i) ==
    /\ phase = "built"
    /\ pc = "idle"
    /\ i \in DOMAIN nodes
    /\ nodes[i].heap_pointer.offset # InvalidOffsetNumber
    /\ Cardinality({j \in DOMAIN nodes : nodes[j].heap_pointer.offset = InvalidOffsetNumber})
         < MaxTombstones
    /\ nodes' = [nodes EXCEPT ![i].heap_pointer.offset = InvalidOffsetNumber]
    /\ lastCall' = Call("delete", "ok")
    /\ UNCHANGED <<opt, dims, heap, page0, phase, ntuples, bs_meta, graph_meta, builder,
                   num_nodes, samples, trainings, scanpos, fetched, migrations>>
    /\ UNCHANGED <<scanVars, envVars>>

(* -------------------------------- scan --------------------------------- *)

\* an iterator that takes the search list size of the index
IteratorNewMetaListSize(query, search_list_size, meta_page, vecs) ==
    [ query            |-> query,
      search_list_size |-> meta_page.search_list_size,
      cands            |-> SortByDistance(InitIdSet(meta_page), vecs, query),
      visited          |-> {},
      seen             |-> InitIdSet(meta_page),
      current          |-> 0,
      last_buffer      |-> <<>> ]

\* greedy_search_streaming_init inside TSVResponseIterator::new
IteratorNew(query, search_list_size, meta_page, vecs) ==
    [ query            |-> query,
      search_list_size |-> search_list_size,
      cands            |-> SortByDistance(InitIdSet(meta_page), vecs, query),
      visited          |-> {},
      seen             |-> InitIdSet(meta_page),
      current          |-> 0,
      last_buffer      |-> <<>> ]

\* a streaming search that puts every neighbor of an expanded node in the list,
\* also one that was in the list before
RECURSIVE GreedySearchIterateForgetsSeen(_, _, _)
GreedySearchIterateForgetsSeen(lsr, nb, vecs) ==
    CHOOSE result \in
        { LET unvisited == {k \in 1 .. Min2(Len(it.cands), it.search_list_size) :
                               it.cands[k] \notin it.visited}
          IN IF unvisited = {} THEN it
             ELSE LET k == CHOOSE x \in unvisited : \A y \in unvisited : x <= y
                      n == it.cands[k]
                      fresh == Range(nb[n])
                  IN GreedySearchIterateForgetsSeen(
                         [it EXCEPT !.cands = SortByDistance(Range(it.cands) \cup fresh, vecs,
                                                             it.query),
                                    !.visited = it.visited \cup {n},
                                    !.seen = it.seen \cup fresh],
                         nb, vecs)
          : it \in {lsr} } : TRUE

\* greedy_search_iterate of the streaming search: visit the closest unvisited
\* candidate of rank < L until there is none; the list is not truncated.  The
\* list search result lsr is bound to its value it before the search works on it
RECURSIVE GreedySearchIterate(_, _, _)
GreedySearchIterate(lsr, nb, vecs) ==
    CHOOSE result \in
        { LET unvisited == {k \in 1 .. Min2(Len(it.cands), it.search_list_size) :
                               it.cands[k] \notin it.visited}
          IN IF unvisited = {} THEN it
             ELSE LET k == CHOOSE x \in unvisited : \A y \in unvisited : x <= y
                      n == it.cands[k]
                      fresh == Range(nb[n]) \ it.seen
                  IN GreedySearchIterate(
                         [it EXCEPT !.cands = SortByDistance(Range(it.cands) \cup fresh, vecs,
                                                             it.query),
                                    !.visited = it.visited \cup {n},
                                    !.seen = it.seen \cup fresh],
                         nb, vecs)
          : it \in {lsr} } : TRUE

\* a consume that hands out the farthest candidate
ConsumeFarthest(cands) == IF cands = <<>> THEN <<>> ELSE <<cands[Len(cands)]>>

\* ListSearchResult::consume: the head of the candidate list, <<>> for None
Consume(cands) == IF cands = <<>> THEN <<>> ELSE <<Head(cands)>>

\* a next that returns every consumed item
IsDeletedNever(heap_pointer) == FALSE

\* the test "heap_pointer.offset == InvalidOffsetNumber" of next
IsDeleted(heap_pointer) == heap_pointer.offset = InvalidOffsetNumber

\* an assignment that never releases the buffer it replaces
PinReplaceSeqKeepOld(last_buffer, block) == <<[op |-> "pin", block |-> block]>>

\* an assignment that releases the held buffer before it pins the new block
PinReplaceSeqDropFirst(last_buffer, block) ==
    [k \in 1 .. Len(last_buffer) |-> [op |-> "unpin", block |-> last_buffer[k]]]
        \o <<[op |-> "pin", block |-> block]>>

\* self.last_buffer = Some(PinnedBufferShare::read(index, block)): the buffer
\* operations in the order they run: the right-hand side pins the new block, then
\* the assignment drops the buffer last_buffer held
PinReplaceSeq(last_buffer, block) ==
    <<[op |-> "pin", block |-> block]>>
        \o [k \in 1 .. Len(last_buffer) |-> [op |-> "unpin", block |-> last_buffer[k]]]

\* an amrescan that only rejects a scan without order-by keys
RescanRejectsNoKeyOnly(norderbys) == norderbys = 0

\* amrescan's checks of norderbys
RescanRejects(norderbys) == norderbys = 0 \/ norderbys > 1

\* ambeginscan: a scan state with a null storage pointer
Ambeginscan ==
    /\ phase = "built"
    /\ scan = "none"
    /\ scan' = "open"
    /\ storage' = "null"
    /\ lastCall' = Call("ambeginscan", "ok")
    /\ UNCHANGED <<buildVars, envVars>>
    /\ UNCHANGED <<iter, pins, orphan_pins, pc, item, pending, returned, rescans>>

\* amrescan, with TSVScanState::initialize and TSVResponseIterator::new: the
\* StorageState the scan state pointed to stays allocated in the memory context
Amrescan(norderbys, query, search_list_size) ==
    /\ scan = "open"
    /\ pc = "idle"
    /\ rescans < MaxRescans
    /\ rescans' = rescans + 1
    /\ IF RescanRejects(norderbys)
       THEN /\ scan' = "aborted"
            /\ lastCall' = [Call("amrescan", "panic") EXCEPT !.arg = norderbys, !.key = query]
            /\ UNCHANGED <<storage, iter, pins, orphan_pins, returned>>
       ELSE /\ storage' = "iter"
            /\ iter' = IteratorNew(query, search_list_size, GetMetaFromPage(page0), Vecs(nodes))
            /\ orphan_pins' = orphan_pins (+) pins
            /\ pins' = EmptyBag
            /\ returned' = <<>>
            /\ lastCall' = [Call("amrescan", "ok") EXCEPT !.arg = norderbys, !.key = query,
                                                          !.meta_reads = 3]
            /\ UNCHANGED scan
    /\ UNCHANGED <<buildVars, envVars>>
    /\ UNCHANGED <<pc, item, pending>>

\* one turn of the loop of TSVResponseIterator::next up to the match on the item
NextLoopBody ==
    \E it \in {GreedySearchIterate(iter, DiskNeighbors(nodes), Vecs(nodes))} :
      \E got \in {Consume(it.cands)} :
        IF got = <<>>
        THEN /\ iter' = [it EXCEPT !.last_buffer = <<>>]
             /\ pins' = pins (-) SetToBag(Range(iter.last_buffer))
             /\ pc' = "idle"
             /\ lastCall' = Call("amgettuple", "false")
             /\ UNCHANGED <<item, pending, returned>>
        ELSE LET n == got[1]
             IN /\ iter' = [it EXCEPT !.cands = SelectSeq(it.cands, LAMBDA c : c # n)]
                /\ item' = [node |-> n, heap_pointer |-> nodes[n].heap_pointer,
                            index_pointer |-> IndexPointerOf(n)]
                /\ pending' = PinReplaceSeq(iter.last_buffer, IndexPointerOf(n).block_number)
                /\ pc' = "pin"
                /\ lastCall' = Call("amgettuple", "running")
                /\ UNCHANGED <<pins, returned>>

\* an amgettuple that reports an exhausted scan when the scan state points to
\* no StorageState
AmgettupleNullIsExhausted ==
    /\ scan = "open"
    /\ pc = "idle"
    /\ IF storage = "null"
       THEN /\ lastCall' = Call("amgettuple", "false")
            /\ UNCHANGED <<scan, iter, pins, pc, item, pending, returned>>
       ELSE /\ NextLoopBody
            /\ UNCHANGED scan
    /\ UNCHANGED <<buildVars, envVars>>
    /\ UNCHANGED <<storage, orphan_pins, rescans>>

\* amgettuple: fails on a scan state with no storage, else enters next
Amgettuple ==
    /\ scan = "open"
    /\ pc = "idle"
    /\ IF storage = "null"
       THEN /\ scan' = "aborted"
            /\ lastCall' = Call("amgettuple", "panic")
            /\ UNCHANGED <<iter, pins, pc, item, pending, returned>>
       ELSE /\ NextLoopBody
            /\ UNCHANGED scan
    /\ UNCHANGED <<buildVars, envVars>>
    /\ UNCHANGED <<storage, orphan_pins, rescans>>

\* next, after a deleted tuple: the loop continues
NextContinue ==
    /\ pc = "next"
    /\ NextLoopBody
    /\ UNCHANGED <<buildVars, envVars>>
    /\ UNCHANGED <<scan, storage, orphan_pins, rescans>>

\* next, Some(item): one buffer operation of the last_buffer assignment; after the
\* last one the item is counted and returned unless its heap pointer is deleted
NextBufferOp ==
    /\ pc = "pin"
    /\ LET o == Head(pending)
       IN pins' = IF o.op = "pin" THEN pins (+) SetToBag({o.block})
                  ELSE pins (-) SetToBag({o.block})
    /\ pending' = Tail(pending)
    /\ IF Tail(pending) = <<>>
       THEN /\ iter' = [iter EXCEPT !.last_buffer = <<item.index_pointer.block_number>>,
                                    !.current = @ + 1]
            /\ IF IsDeleted(item.heap_pointer)
               THEN /\ pc' = "next"
                    /\ UNCHANGED <<lastCall, returned>>
               ELSE /\ pc' = "idle"
                    /\ lastCall' = [Call("amgettuple", "true") EXCEPT
                                       !.node = item.node,
                                       !.heap_pointer = item.heap_pointer]
                    /\ returned' = Append(returned, item.node)
       ELSE UNCHANGED <<iter, pc, lastCall, returned>>
    /\ UNCHANGED <<buildVars, envVars>>
    /\ UNCHANGED <<scan, storage, orphan_pins, item, rescans>>

\* amendscan: the statistics are emitted at debug level only
Amendscan(min_level) ==
    /\ scan = "open"
    /\ pc = "idle"
    /\ IF min_level <= DEBUG1 /\ storage = "null"
       THEN /\ scan' = "aborted"
            /\ lastCall' = [Call("amendscan", "panic") EXCEPT !.arg = min_level]
       ELSE /\ scan' = "ended"
            /\ lastCall' = [Call("amendscan", "ok") EXCEPT !.arg = min_level]
    /\ UNCHANGED <<buildVars, envVars>>
    /\ UNCHANGED <<storage, iter, pins, orphan_pins, pc, item, pending, returned, rescans>>

\* the host deletes the memory context of the scan (leak_and_drop_on_delete):
\* every StorageState allocated in it is dropped, and with it its pinned buffer
MemoryContextDelete ==
    /\ scan \in {"ended", "aborted"}
    /\ scan' = "none"
    /\ storage' = "null"
    /\ iter' = NoIter
    /\ pins' = EmptyBag
    /\ orphan_pins' = EmptyBag
    /\ pc' = "idle"
    /\ item' = NoItem
    /\ pending' = <<>>
    /\ returned' = <<>>
    /\ rescans' = 0
    /\ lastCall' = Call("context_delete", "ok")
    /\ UNCHANGED <<buildVars, envVars>>

LogLevels == {DEBUG1 - 1, DEBUG1, DEBUG1 + 1}

RowValues == Coords \cup {NullVec}

\* the build of an index and the single-row inserts that follow it
Next ==
    \/ AmbuildStart
    \/ \E v \in RowValues : Len(heap) < MaxRows /\ BuildCallback(v)
    \/ FinalizeIndexBuild
    \/ \E v \in RowValues : Len(heap) < MaxRows /\ Aminsert(v)

Spec == Init /\ [][Next]_vars

\* full traversals: indexes over up to MaxTraverseRows non-null rows, and scans
\* that are started by one amrescan and read to the end
TraverseOptions ==
    {o \in PlainOptions : o.search_list_size = MaxSearchListSize /\ o.max_alpha = 12}

InitTraverse ==
    /\ Init
    /\ opt \in TraverseOptions

NextTraverse ==
    \/ AmbuildStart
    \/ \E v \in Coords : Len(heap) < MaxTraverseRows /\ BuildCallback(v)
    \/ FinalizeIndexBuild
    \/ \E v \in Coords : Len(heap) < MaxTraverseRows /\ Aminsert(v)
    \/ Ambeginscan
    \/ \E q \in Coords, l \in 1 .. MaxSearchListSize : rescans = 0 /\ Amrescan(1, q, l)
    \/ Amgettuple
    \/ NextBufferOp
    \/ Amendscan(DEBUG1 + 1)
    \/ MemoryContextDelete

SpecTraverse == InitTraverse /\ [][NextTraverse]_vars

\* the scan life cycle over the indexes of one option set, with deleted rows,
\* repeated rescans, every number of order-by keys and every log level
ScanOptions ==
    {o \in PlainOptions : o.num_neighbors = 2 /\ o.search_list_size = 2 /\ o.max_alpha = 10}

ScanRowValues == {0, MaxCoord, NullVec}

ScanQueries == {0, MaxCoord}

InitScan ==
    /\ Init
    /\ opt \in ScanOptions

NextScan ==
    \/ AmbuildStart
    \/ \E v \in ScanRowValues : Len(heap) < MaxRows /\ BuildCallback(v)
    \/ FinalizeIndexBuild
    \/ \E v \in ScanRowValues : Len(heap) < MaxRows /\ Aminsert(v)
    \/ \E i \in 1 .. MaxRows : Tombstone(i)
    \/ Ambeginscan
    \/ \E n \in 0 .. 2, q \in ScanQueries, l \in 1 .. MaxSearchListSize : Amrescan(n, q, l)
    \/ Amgettuple
    \/ NextContinue
    \/ NextBufferOp
    \/ \E l \in LogLevels : Amendscan(l)
    \/ MemoryContextDelete

SpecScan == InitScan /\ [][NextScan]_vars

(* --------------------------- meta page calls --------------------------- *)

\* a call of MetaPage::fetch on an existing index
MetaPageFetch ==
    /\ phase = "built"
    /\ migrations < MaxMigrations
    /\ IF FetchOk(page0)
       THEN /\ fetched' = FetchMeta(page0)
            /\ page0' = FetchPage(page0)
            /\ migrations' = migrations + (IF FetchMigrates(page0) THEN 1 ELSE 0)
            /\ lastCall' = [Call("fetch", "ok") EXCEPT
                               !.arg = IF FetchMigrates(page0) THEN 1 ELSE 0]
       ELSE /\ lastCall' = Call("fetch", "panic")
            /\ UNCHANGED <<fetched, page0, migrations>>
    /\ UNCHANGED <<opt, dims, heap, nodes, phase, ntuples, bs_meta, graph_meta, builder,
                   num_nodes, samples, trainings, scanpos>>
    /\ UNCHANGED <<scanVars, envVars>>

\* the fetched MetaPage written back with no field changed: reinit of page 0 and
\* write_to_page, as MetaPage::overwrite does
MetaPageWriteBack ==
    /\ phase = "built"
    /\ lastCall.op = "fetch"
    /\ lastCall.kind = "ok"
    /\ page0' = Overwrite(fetched)
    /\ lastCall' = Call("overwrite", IF OverwriteVerified(fetched) THEN "ok" ELSE "error")
    /\ UNCHANGED <<opt, dims, heap, nodes, phase, ntuples, bs_meta, graph_meta, builder,
                   num_nodes, samples, trainings, scanpos, fetched, migrations>>
    /\ UNCHANGED <<scanVars, envVars>>

\* a call of MetaPage::update_init_ids with a node of the index
MetaPageUpdateInitIds(init_ids) ==
    /\ phase = "built"
    /\ page0.type = "Meta"
    /\ IF Len(init_ids) # 1
       THEN /\ lastCall' = Call("update_init_ids", "panic")
            /\ UNCHANGED page0
       ELSE /\ page0' = UpdateInitIds(page0, init_ids)
            /\ lastCall' = Call("update_init_ids", "ok")
    /\ UNCHANGED <<opt, dims, heap, nodes, phase, ntuples, bs_meta, graph_meta, builder,
                   num_nodes, samples, trainings, scanpos, fetched, migrations>>
    /\ UNCHANGED <<scanVars, envVars>>

\* a call of MetaPage::update_pq_pointer
MetaPageUpdatePqPointer(pq_pointer) ==
    /\ phase = "built"
    /\ page0.type = "Meta"
    /\ page0' = UpdatePqPointer(page0, pq_pointer)
    /\ lastCall' = Call("update_pq_pointer", "ok")
    /\ UNCHANGED <<opt, dims, heap, nodes, phase, ntuples, bs_meta, graph_meta, builder,
                   num_nodes, samples, trainings, scanpos, fetched, migrations>>
    /\ UNCHANGED <<scanVars, envVars>>

\* the meta page over the life of an index: created by a build of any storage
\* type, or found in the MetaV1 layout of an older version; then fetched,
\* written back and updated, between inserts
MetaOptions ==
    { [num_neighbors |-> n, search_list_size |-> l, max_alpha |-> GRAPH_SLACK_FACTOR_X10 - 1,
       use_pq |-> p, pq_vector_length |-> MaxPqVectorLength - 1, use_bq |-> b] :
        n \in 1 .. MaxNumNeighbors, l \in MaxSearchListSize .. MaxSearchListSize,
        p \in BOOLEAN, b \in BOOLEAN }

MetaRowValues == {0, MaxCoord}

PqPointers == {QuantizerPointer, ItemPointer(QuantizerPointer.block_number, 2)}

\* an index of at most one row that an extension version <= 0.0.2 has built
InitV1Index ==
    /\ ~opt.use_bq
    /\ \E n \in 0 .. 1 :
          /\ heap = [k \in 1 .. n |-> 0]
          /\ nodes = [k \in 1 .. n |->
                         [vec |-> 0, heap_pointer |-> HeapPointerOf(k), nbrs |-> <<>>,
                          page_type |-> StoragePageType(IF opt.use_pq THEN "PqCompression"
                                                        ELSE "Plain")]]
          /\ page0 = PageV1(MetaPageV1(dims, opt,
                                IF n = 0 THEN ItemPointer(0, 0) ELSE IndexPointerOf(1),
                                IF opt.use_pq THEN QuantizerPointer ELSE ItemPointer(0, 0)))
          /\ ntuples = n
          /\ num_nodes = n
    /\ phase = "built"
    /\ bs_meta = NoPage.body
    /\ graph_meta = NoPage.body
    /\ builder = <<>>
    /\ lastCall = Call("none", "ok")
    /\ scan = "none"
    /\ storage = "null"
    /\ iter = NoIter
    /\ pins = EmptyBag
    /\ orphan_pins = EmptyBag
    /\ pc = "idle"
    /\ item = NoItem
    /\ pending = <<>>
    /\ returned = <<>>
    /\ rescans = 0
    /\ samples = <<>>
    /\ trainings = 0
    /\ scanpos = 0
    /\ fetched = NoPage.body
    /\ migrations = 0
    /\ InitEnv

InitMeta ==
    /\ opt \in MetaOptions
    /\ dims \in 1 .. MaxDims
    /\ (InitIndex \/ InitV1Index)

NextMeta ==
    \/ AmbuildStart
    \/ \E v \in MetaRowValues : scanpos < MaxMetaRows /\ BuildCallbackTrain(v)
    \/ FinishTraining
    \/ \E v \in MetaRowValues : scanpos < MaxMetaRows /\ BuildCallback(v)
    \/ FinalizeIndexBuild
    \/ \E v \in MetaRowValues : Len(heap) < MaxMetaRows + MaxInserts /\ Aminsert(v)
    \/ MetaPageFetch
    \/ MetaPageWriteBack
    \/ \E init_ids \in UNION {[1 .. n -> {IndexPointerOf(i) : i \in DOMAIN nodes}] :
                                    n \in 0 .. 2} :
          MetaPageUpdateInitIds(init_ids)
    \/ \E pq_pointer \in PqPointers : MetaPageUpdatePqPointer(pq_pointer)

SpecMeta == InitMeta /\ [][NextMeta]_vars

\* builds with every storage type: every combination of use_pq and use_bq, valid
\* and invalid numbers of dimensions, null rows, and inserts after the build
BuildOptions ==
    { [num_neighbors |-> MaxNumNeighbors, search_list_size |-> MaxSearchListSize,
       max_alpha |-> GRAPH_SLACK_FACTOR_X10 - 1, use_pq |-> p, pq_vector_length |-> k,
       use_bq |-> b] :
        p \in BOOLEAN, b \in BOOLEAN, k \in 2 .. MaxPqVectorLength }

BuildDims == {0 - 1, 0, MAX_DIMENSIONS - 1, MAX_DIMENSIONS} \cup (1 .. MaxDims)

InitBuild ==
    /\ opt \in BuildOptions
    /\ dims \in BuildDims
    /\ InitIndex

NextBuild ==
    \/ AmbuildStart
    \/ \E v \in ScanRowValues : scanpos < MaxRows /\ BuildCallbackTrain(v)
    \/ FinishTraining
    \/ \E v \in ScanRowValues : scanpos < MaxRows /\ BuildCallback(v)
    \/ FinalizeIndexBuild
    \/ \E v \in ScanRowValues : Len(heap) < MaxRows + MaxInserts /\ Aminsert(v)

SpecBuild == InitBuild /\ [][NextBuild]_vars

\* the slack of the Builder store for every num_neighbors up to
\* MaxSlackNeighbors, in builds of at most two equal rows
InitSlack ==
    /\ opt \in { [num_neighbors |-> n, search_list_size |-> MaxSlackNeighbors,
                   max_alpha |-> GRAPH_SLACK_FACTOR_X10 - 1, use_pq |-> FALSE,
                   pq_vector_length |-> 0, use_bq |-> FALSE] : n \in 1 .. MaxSlackNeighbors }
    /\ dims = 1
    /\ InitIndex

NextSlack ==
    \/ AmbuildStart
    \/ scanpos < MaxMetaRows /\ BuildCallback(0)
    \/ FinalizeIndexBuild

SpecSlack == InitSlack /\ [][NextSlack]_vars

(* ------------------------- damaged meta pages -------------------------- *)

\* page 0 as something other than this version of the extension left it: the
\* magic number and the version of the header item, of the body item or of the
\* MetaV1 contents take any value
PageDamage(part, magic_number, version) ==
    /\ phase = "built"
    /\ IF page0.type = "MetaV1"
       THEN /\ part = "contents"
            /\ page0' = [page0 EXCEPT !.contents.magic_number = magic_number,
                                      !.contents.version = version]
       ELSE /\ part \in {"header", "body"}
            /\ page0' = [page0 EXCEPT ![part].magic_number = magic_number,
                                      ![part].version = version]
    /\ page0' # page0
    /\ lastCall' = Call("damage", "ok")
    /\ UNCHANGED <<opt, dims, heap, nodes, phase, ntuples, bs_meta, graph_meta, builder,
                   num_nodes, samples, trainings, scanpos, fetched, migrations>>
    /\ UNCHANGED <<scanVars, envVars>>

\* indexes in the MetaV1 layout, migrated by the first fetch that succeeds
InitV1 ==
    /\ opt \in MetaOptions
    /\ dims = 1
    /\ InitV1Index

NextDamage ==
    \/ \E part \in {"header", "body", "contents"},
          magic_number \in {TSV_MAGIC_NUMBER, TSV_MAGIC_NUMBER + 1},
          version \in TSV_VERSION_V1 .. TSV_VERSION + 1 :
              PageDamage(part, magic_number, version)
    \/ MetaPageFetch
    \/ Len(heap) < MaxMetaRows /\ Aminsert(0)

SpecDamage == InitV1 /\ [][NextDamage]_vars

(* --------------------------- scans to the end -------------------------- *)

\* scans over built indexes with inserted and tombstoned nodes; the executor
\* keeps calling amgettuple, and a call of next that has started runs on
InitExhaust ==
    /\ Init
    /\ opt \in ScanOptions

NextExhaust ==
    \/ AmbuildStart
    \/ \E v \in ScanQueries : Len(heap) < MaxRows /\ BuildCallback(v)
    \/ FinalizeIndexBuild
    \/ \E v \in ScanQueries : Len(heap) < MaxRows /\ Aminsert(v)
    \/ \E i \in 1 .. MaxRows : Tombstone(i)
    \/ Ambeginscan
    \/ \E q \in ScanQueries, l \in 1 .. MaxSearchListSize : Amrescan(1, q, l)
    \/ Amgettuple
    \/ NextContinue
    \/ NextBufferOp

SpecExhaust ==
    /\ InitExhaust
    /\ [][NextExhaust]_vars
    /\ WF_vars(Amgettuple)
    /\ WF_vars(NextContinue)
    /\ WF_vars(NextBufferOp)

(* ------------------------------ finalize ------------------------------- *)

\* Plain builds over up to MaxTraverseRows rows with every vector, every
\* num_neighbors, search_list_size and max_alpha, up to the end of ambuild
InitFinalize ==
    /\ opt \in PlainOptions
    /\ dims = 1
    /\ InitIndex

NextFinalize ==
    \/ AmbuildStart
    \/ \E v \in Coords : scanpos < MaxTraverseRows /\ BuildCallback(v)
    \/ FinalizeIndexBuild

SpecFinalize == InitFinalize /\ [][NextFinalize]_vars

(* ------------------------ the runtime setting -------------------------- *)

\* SET tsv.query_search_list_size
SetQuerySearchListSize(l) ==
    /\ l # query_search_list_size
    /\ query_search_list_size' = l
    /\ UNCHANGED <<buildVars, scanVars, lastCall, interrupt_pending, current_context,
                   latchVars>>

SettingOptions == {o \in PlainOptions : o.num_neighbors = MaxNumNeighbors /\ o.max_alpha = 10}

\* scans of Plain indexes built with every search_list_size, the setting
\* changed at any time, amrescan reading it as at scan.rs:212
InitSetting ==
    /\ opt \in SettingOptions
    /\ dims = 1
    /\ InitIndex

NextSetting ==
    \/ \E l \in 1 .. MaxSearchListSize : SetQuerySearchListSize(l)
    \/ AmbuildStart
    \/ \E v \in ScanQueries : Len(heap) < MaxRows /\ BuildCallback(v)
    \/ FinalizeIndexBuild
    \/ \E i \in 1 .. MaxRows : Tombstone(i)
    \/ Ambeginscan
    \/ \E q \in ScanQueries : Amrescan(1, q, query_search_list_size)
    \/ Amgettuple
    \/ NextContinue
    \/ NextBufferOp
    \/ Amendscan(DEBUG1)
    \/ MemoryContextDelete

SpecSetting == InitSetting /\ [][NextSetting]_vars

(* ----------------------------- cancellation ---------------------------- *)

\* the host sets its cancellation flag (a query cancel or a statement timeout)
QueryCancel ==
    /\ ~interrupt_pending
    /\ interrupt_pending' = TRUE
    /\ UNCHANGED <<buildVars, scanVars, lastCall, current_context, query_search_list_size,
                   latchVars>>

\* a Plain and a BQ index
CancelOptions ==
    { [num_neighbors |-> MaxNumNeighbors, search_list_size |-> MaxSearchListSize,
       max_alpha |-> GRAPH_SLACK_FACTOR_X10 - 1, use_pq |-> FALSE, pq_vector_length |-> 0,
       use_bq |-> b] : b \in BOOLEAN }

CancelRowValues == {0, NullVec}

\* builds and scans during which the host may ask for cancellation at any time
InitCancel ==
    /\ opt \in CancelOptions
    /\ dims = 1
    /\ InitIndex

NextCancel ==
    \/ QueryCancel
    \/ AmbuildStart
    \/ \E v \in CancelRowValues : scanpos < MaxCancelRows /\ BuildCallbackTrain(v)
    \/ FinishTraining
    \/ \E v \in CancelRowValues : scanpos < MaxCancelRows /\ BuildCallback(v)
    \/ FinalizeIndexBuild
    \/ \E i \in 1 .. MaxCancelRows : Tombstone(i)
    \/ Ambeginscan
    \/ Amrescan(1, 0, query_search_list_size)
    \/ Amgettuple
    \/ NextContinue
    \/ NextBufferOp
    \/ Amendscan(DEBUG1)
    \/ MemoryContextDelete

SpecCancel == InitCancel /\ [][NextCancel]_vars

(* ------------------- concurrent meta page updates ---------------------- *)

\* a buffer lock that is granted whoever holds the buffer
LockNeverWaits(holder, b) == FALSE

\* the exclusive buffer lock of modify_bytes and the shared lock of a read: the
\* request of backend b waits while another backend holds the exclusive lock
LockWaits(holder, b) == holder # 0 /\ holder # b

\* the pointers the concurrent updates write: no block or offset in common
LatchPointers == {ItemPointer(1, 1), ItemPointer(2, 2)}

\* the init id and the quantizer pointer as they stand in the body of a page
PointersOn(page) ==
    [init_ids   |-> ItemPointer(page.body.init_ids_block_number, page.body.init_ids_offset),
     pq_pointer |-> ItemPointer(page.body.pq_block_number, page.body.pq_block_offset)]

\* MetaPage::modify at the start of update_init_ids or update_pq_pointer:
\* modify_bytes locks the buffer of page 0 exclusively
MetaPageModify(b, op, pointer) ==
    /\ phase = "built"
    /\ page0.type = "Meta"
    /\ backend[b].pc = "idle"
    /\ ~LockWaits(latch, b)
    /\ latch' = b
    /\ backend' = [backend EXCEPT ![b] = [pc |-> "block", op |-> op, pointer |-> pointer]]
    /\ lastCall' = Call(op, "running")
    /\ UNCHANGED <<buildVars, scanVars, hostVars, current_context, observed, committed>>

\* the first assignment through the archived view: the block number
ArchivedSetBlock(b) ==
    /\ backend[b].pc = "block"
    /\ page0' = IF backend[b].op = "update_init_ids"
                THEN [page0 EXCEPT
                        !.body.init_ids_block_number = backend[b].pointer.block_number]
                ELSE [page0 EXCEPT !.body.pq_block_number = backend[b].pointer.block_number]
    /\ backend' = [backend EXCEPT ![b].pc = "offset"]
    /\ UNCHANGED <<opt, dims, heap, nodes, phase, ntuples, bs_meta, graph_meta, builder,
                   num_nodes, samples, trainings, scanpos, fetched, migrations, lastCall>>
    /\ UNCHANGED <<scanVars, hostVars, current_context, latch, observed, committed>>

\* the second assignment: the offset
ArchivedSetOffset(b) ==
    /\ backend[b].pc = "offset"
    /\ page0' = IF backend[b].op = "update_init_ids"
                THEN [page0 EXCEPT !.body.init_ids_offset = backend[b].pointer.offset]
                ELSE [page0 EXCEPT !.body.pq_block_offset = backend[b].pointer.offset]
    /\ backend' = [backend EXCEPT ![b].pc = "commit"]
    /\ UNCHANGED <<opt, dims, heap, nodes, phase, ntuples, bs_meta, graph_meta, builder,
                   num_nodes, samples, trainings, scanpos, fetched, migrations, lastCall>>
    /\ UNCHANGED <<scanVars, hostVars, current_context, latch, observed, committed>>

\* m.commit(): the buffer is marked dirty and its lock released
WritableCommit(b) ==
    /\ backend[b].pc = "commit"
    /\ latch' = IF latch = b THEN 0 ELSE latch
    /\ committed' = IF backend[b].op = "update_init_ids"
                    THEN [committed EXCEPT !.init_ids = backend[b].pointer]
                    ELSE [committed EXCEPT !.pq_pointer = backend[b].pointer]
    /\ backend' = [backend EXCEPT ![b] = IdleBackend]
    /\ lastCall' = Call(backend[b].op, "ok")
    /\ UNCHANGED <<buildVars, scanVars, hostVars, current_context, observed>>

\* MetaPage::read by a backend that is not inside an update: the page is read
\* under the shared buffer lock
MetaPageRead(b) ==
    /\ phase = "built"
    /\ page0.type = "Meta"
    /\ backend[b].pc = "idle"
    /\ ~LockWaits(latch, b)
    /\ observed' = PointersOn(page0)
    /\ lastCall' = Call("read", "ok")
    /\ UNCHANGED <<buildVars, scanVars, hostVars, current_context, latch, backend, committed>>

\* backends that update and read the meta page of an empty index at the same time
InitLatch ==
    /\ Init
    /\ opt.num_neighbors = MaxNumNeighbors
    /\ opt.search_list_size = MaxSearchListSize
    /\ opt.max_alpha = GRAPH_SLACK_FACTOR_X10 - 1

NextLatch ==
    \/ AmbuildStart
    \/ FinalizeIndexBuild
    \/ \E b \in Backends, op \in {"update_init_ids", "update_pq_pointer"},
          pointer \in LatchPointers :
           MetaPageModify(b, op, pointer)
    \/ \E b \in Backends : ArchivedSetBlock(b)
    \/ \E b \in Backends : ArchivedSetOffset(b)
    \/ \E b \in Backends : WritableCommit(b)
    \/ \E b \in Backends : MetaPageRead(b)

SpecLatch == InitLatch /\ [][NextLatch]_vars

(* ----------------------- concurrent migrations ------------------------- *)

\* the first half of a fetch by backend b on a MetaV1 page: the page is read
\* under the shared buffer lock, the new MetaPage is computed from its contents
\* and the page is released
FetchReadV1(b) ==
    /\ phase = "built"
    /\ page0.type = "MetaV1"
    /\ backend[b].pc = "idle"
    /\ ~LockWaits(latch, b)
    /\ PageGetMetaValid(page0)
    /\ fetched' = GetNewMeta(page0.contents)
    /\ backend' = [backend EXCEPT ![b] = [pc |-> "overwrite", op |-> "fetch",
                                          pointer |-> ItemPointer(0, 0)]]
    /\ lastCall' = Call("fetch", "running")
    /\ UNCHANGED <<opt, dims, heap, page0, nodes, phase, ntuples, bs_meta, graph_meta,
                   builder, num_nodes, samples, trainings, scanpos, migrations>>
    /\ UNCHANGED <<scanVars, hostVars, current_context, latch, observed, committed>>

\* the write of overwrite: page 0 is taken under the exclusive buffer lock,
\* reinitialised, filled from the new MetaPage computed before the release,
\* and released again
FetchOverwrite(b) ==
    /\ backend[b].pc = "overwrite"
    /\ ~LockWaits(latch, b)
    /\ page0' = Overwrite(fetched)
    /\ migrations' = migrations + 1
    /\ backend' = [backend EXCEPT ![b].pc = "verify"]
    /\ UNCHANGED <<opt, dims, heap, nodes, phase, ntuples, bs_meta, graph_meta, builder,
                   num_nodes, samples, trainings, scanpos, fetched, lastCall>>
    /\ UNCHANGED <<scanVars, hostVars, current_context, latch, observed, committed>>

\* the read back at the end of overwrite, and the return of fetch
FetchVerify(b) ==
    /\ backend[b].pc = "verify"
    /\ ~LockWaits(latch, b)
    /\ lastCall' = IF page0.type = "Meta" /\ MetaPageValid(page0)
                      /\ GetMetaFromPage(page0) = fetched
                   THEN [Call("fetch", "ok") EXCEPT !.arg = 1]
                   ELSE Call("fetch", "error")
    /\ backend' = [backend EXCEPT ![b] = IdleBackend]
    /\ UNCHANGED <<buildVars, scanVars, hostVars, current_context, latch, observed,
                   committed>>

NextMigrate ==
    \/ \E b \in Backends : FetchReadV1(b)
    \/ \E b \in Backends : FetchOverwrite(b)
    \/ \E b \in Backends : FetchVerify(b)
    \/ \E b \in Backends, op \in {"update_init_ids", "update_pq_pointer"},
          pointer \in LatchPointers :
           MetaPageModify(b, op, pointer)
    \/ \E b \in Backends : ArchivedSetBlock(b)
    \/ \E b \in Backends : ArchivedSetOffset(b)
    \/ \E b \in Backends : WritableCommit(b)
    \/ \E b \in Backends : MetaPageRead(b)

SpecMigrate == InitV1 /\ [][NextMigrate]_vars

(* ------------------------------- claims -------------------------------- *)

\* C1: amgettuple (TSVResponseIterator::next) never returns a heap pointer whose
\* offset is InvalidOffsetNumber: a consumed item with a deleted heap pointer is
\* skipped and the loop goes on to the following item or to None.
C1_TombstoneNeverReturned ==
    /\ (lastCall.op = "amgettuple" /\ lastCall.kind = "true") =>
           lastCall.heap_pointer.offset # InvalidOffsetNumber
    /\ (pc = "next") => item.heap_pointer.offset = InvalidOffsetNumber

\* a next that skipped a deleted item and then returned a live one
C1_Witness ==
    /\ lastCall.op = "amgettuple"
    /\ lastCall.kind = "true"
    /\ iter.current > Len(returned)

\* C2: between calls, after a next that returned Some(h) the iterator holds exactly
\* one pin, on the index block of the node whose heap pointer h is; after a next
\* that returned None it holds no pin.
C2_PinFollowsLastTuple ==
    (pc = "idle" /\ lastCall.op = "amgettuple") =>
        /\ lastCall.kind = "true" =>
               /\ nodes[lastCall.node].heap_pointer = lastCall.heap_pointer
               /\ pins = SetToBag({IndexPointerOf(lastCall.node).block_number})
               /\ iter.last_buffer = <<IndexPointerOf(lastCall.node).block_number>>
        /\ lastCall.kind = "false" =>
               /\ pins = EmptyBag
               /\ iter.last_buffer = <<>>

\* a third tuple returned right after a deleted item was skipped
C2_Witness ==
    /\ pc = "idle"
    /\ lastCall.op = "amgettuple"
    /\ lastCall.kind = "true"
    /\ iter.current > Len(returned)
    /\ Len(returned) >= 2

\* C3: when next replaces the pinned page, the new block is pinned before the held
\* buffer is released: at the release the iterator holds both pins, and while an
\* item is handled by a next that entered with a pin the iterator is never
\* without a pin.
C3_AcquireBeforeRelease ==
    (pc = "pin") =>
        /\ (pending # <<>> /\ Head(pending).op = "unpin") =>
               /\ \A k \in DOMAIN pending : pending[k].op = "unpin"
               /\ CopiesIn(item.index_pointer.block_number, pins) >= 1
               /\ BagCardinality(pins) = 1 + Len(pending)
        /\ (iter.last_buffer # <<>>) => BagCardinality(pins) >= 1

\* the release of a buffer on another block than the one of the new item
C3_Witness ==
    /\ pc = "pin"
    /\ pending # <<>>
    /\ Head(pending).op = "unpin"
    /\ Head(pending).block # item.index_pointer.block_number

\* C4: after amendscan returns the scan holds no pin on any index page, whatever
\* the history of the scan and the log level.
C4_NoPinAfterEndscan ==
    (scan = "ended") => (pins = EmptyBag /\ orphan_pins = EmptyBag)

\* C5: with no deleted row, a scan read to the end returns the heap pointer of
\* every indexed row exactly once.
C5_FullTraversal ==
    (lastCall.op = "amgettuple" /\ lastCall.kind = "false") =>
        /\ Len(returned) = Len(nodes)
        /\ Range(returned) = DOMAIN nodes

C7_RescanOrderByKeys ==
    [][ (rescans' = rescans + 1) =>
            IF lastCall'.arg = 1
            THEN /\ lastCall'.kind = "ok"
                 /\ storage' = "iter"
                 /\ iter'.query = lastCall'.key
                 /\ iter'.current = 0
                 /\ iter'.last_buffer = <<>>
            ELSE /\ lastCall'.kind = "panic"
                 /\ lastCall'.meta_reads = 0
                 /\ UNCHANGED <<storage, iter, pins, orphan_pins, returned, page0, nodes>>
      ]_vars

\* an amrescan with two order-by keys that failed on a scan that had returned a tuple
C7_Witness ==
    /\ lastCall.op = "amrescan"
    /\ lastCall.kind = "panic"
    /\ lastCall.arg = 2
    /\ storage = "iter"
    /\ returned # <<>>

\* C8: a build that reaches finalize writes as many nodes as its callbacks counted
\* non-null rows: every node created has one entry in the Builder cache.
C8_NodesWrittenEqualTuples ==
    /\ (phase = "build") =>
           /\ DOMAIN builder = DOMAIN nodes
           /\ ntuples = Len(nodes)
    /\ (lastCall.op = "ambuild" /\ lastCall.kind # "scanning") =>
           /\ lastCall.kind = "ok"
           /\ num_nodes = ntuples
           /\ ntuples = Cardinality({k \in DOMAIN heap : heap[k] # NullVec})

\* a finished build over a heap with a null row and two or more indexed rows
C8_Witness ==
    /\ lastCall.op = "ambuild"
    /\ lastCall.kind = "ok"
    /\ num_nodes >= 2
    /\ NullVec \in Range(heap)

\* C9: after finalize every node's neighbor list has at most num_neighbors entries.
C9_NeighborsWithinSlots ==
    (lastCall.op = "ambuild" /\ lastCall.kind = "ok") =>
        \A i \in DOMAIN nodes : Len(nodes[i].nbrs) <= opt.num_neighbors

\* a finished build whose Builder cache held a list longer than num_neighbors
C9_Witness ==
    /\ lastCall.op = "ambuild"
    /\ lastCall.kind = "ok"
    /\ \E i \in DOMAIN builder : Len(builder[i]) > opt.num_neighbors

\* C10: the node inserted into an index without init ids becomes the only init id,
\* and an index with a node has init ids.
C10_FirstNodeIsInitId ==
    /\ [](nodes # <<>> => GetInitIds(page0.body) # <<>>)
    /\ [][ (GetInitIds(page0.body) = <<>> /\ Len(nodes') = Len(nodes) + 1) =>
               GetInitIds(page0'.body) = <<IndexPointerOf(Len(nodes'))>> ]_vars

\* the first row of an index built over an empty table, inserted by aminsert
C10_Witness ==
    /\ lastCall.op = "aminsert"
    /\ num_nodes = 0
    /\ Len(nodes) = 1
    /\ GetInitIds(page0.body) = <<IndexPointerOf(1)>>

\* the rows of a sequence of heap rows whose vector is not null
NonNull(rows) == SelectSeq(rows, LAMBDA v : v # NullVec)

\* C11: in a PQ or BQ build the first pass hands every non-null row to add_sample
\* once and touches neither a node nor a neighbor list; finish_training is called
\* once, after the last add_sample and before the first node of the second pass;
\* a Plain build has one pass and no add_sample.
C11_TrainingPassThenBuildPass ==
    /\ [](phase = "train" =>
            /\ GetStorageType(opt) # "Plain"
            /\ nodes = <<>> /\ builder = <<>> /\ ntuples = 0 /\ trainings = 0
            /\ samples = NonNull(heap))
    /\ []((phase = "build" /\ GetStorageType(opt) # "Plain") =>
            /\ trainings = 1
            /\ samples = NonNull(heap)
            /\ Len(nodes) = Len(NonNull(SubSeq(heap, 1, scanpos))))
    /\ []((phase \in {"build", "built"} /\ GetStorageType(opt) = "Plain") =>
            samples = <<>> /\ trainings = 0)
    /\ [][ (samples' # samples) =>
               /\ phase = "train" /\ trainings = 0
               /\ Len(samples') = Len(samples) + 1
               /\ UNCHANGED <<nodes, builder, page0>> ]_vars
    /\ [][ (trainings' # trainings) =>
               /\ trainings = 0 /\ phase = "train" /\ nodes = <<>>
               /\ UNCHANGED <<samples, nodes, builder>> ]_vars
    /\ [][ (nodes' # nodes /\ GetStorageType(opt) # "Plain") =>
               trainings = 1 /\ UNCHANGED <<samples, trainings>> ]_vars

\* a finished two-pass build over a heap with a null row and two sampled rows
C11_Witness ==
    /\ lastCall.op = "ambuild"
    /\ lastCall.kind = "ok"
    /\ trainings = 1
    /\ Len(samples) >= 2
    /\ NullVec \in Range(heap)
    /\ Len(nodes) = Len(samples)

\* C12: a row with a null vector is skipped in every pass of a build and in a
\* single-row insert: no node, no neighbor list and no field of the meta page
\* changes, nothing is sampled or counted, no error is raised, and the build
\* reports the number of non-null rows.
C12_NullRowsSkipped ==
    /\ [][ ( \/ /\ phase \in {"train", "build"}
                /\ scanpos' = scanpos + 1
                /\ heap'[scanpos'] = NullVec
             \/ /\ phase = "built"
                /\ Len(heap') = Len(heap) + 1
                /\ heap'[Len(heap')] = NullVec ) =>
               /\ UNCHANGED <<nodes, builder, page0, ntuples, samples, phase, num_nodes>>
               /\ lastCall'.kind \notin {"panic", "error"} ]_vars
    /\ []((lastCall.op = "ambuild" /\ lastCall.kind = "ok") =>
             ntuples = Len(NonNull(heap)))

\* a null row inserted into an index that a two-pass build has filled
C12_Witness ==
    /\ lastCall.op = "aminsert"
    /\ lastCall.kind = "false"
    /\ heap[Len(heap)] = NullVec
    /\ trainings = 1
    /\ nodes # <<>>
    /\ Len(heap) > scanpos

\* C13: a build whose dimensions fail the checks (use_pq with fewer dimensions than
\* pq_vector_length or with a number pq_vector_length does not divide, or dimensions
\* outside 1..1999) writes no page and scans no row; every other build writes the
\* meta page.
C13_RejectedBuildWritesNothing ==
    LET short == opt.use_pq /\ dims < opt.pq_vector_length
        undivided == opt.use_pq /\ dims >= opt.pq_vector_length
                        /\ dims % opt.pq_vector_length # 0
        outside == dims <= 0 \/ dims >= MAX_DIMENSIONS
    IN IF short \/ undivided \/ outside
       THEN /\ page0 = NoPage
            /\ phase \in {"new", "failed"}
            /\ heap = <<>> /\ nodes = <<>> /\ samples = <<>>
            /\ scanpos = 0 /\ trainings = 0
       ELSE phase # "new" => page0.type = "Meta"

\* a PQ build that failed because pq_vector_length does not divide the dimensions
C13_Witness ==
    /\ lastCall.op = "ambuild"
    /\ lastCall.kind = "error"
    /\ opt.use_pq
    /\ dims > opt.pq_vector_length
    /\ dims < MAX_DIMENSIONS
    /\ dims % opt.pq_vector_length # 0
    /\ page0 = NoPage

\* C14: get_storage_type is PqCompression iff use_pq, BqSpeedup iff use_bq without
\* use_pq, and Plain iff neither flag is set; use_pq wins when both are set.
C14_StorageTypeFromFlags ==
    /\ (GetStorageType(fetched) = "PqCompression") <=> fetched.use_pq
    /\ (GetStorageType(fetched) = "BqSpeedup") <=> (~fetched.use_pq /\ fetched.use_bq)
    /\ (GetStorageType(fetched) = "Plain") <=> (~fetched.use_pq /\ ~fetched.use_bq)
    /\ (phase = "train") => (opt.use_pq \/ opt.use_bq)
    /\ (phase = "build" /\ trainings = 0) => (~opt.use_pq /\ ~opt.use_bq)

\* a meta page with both flags set, fetched from an index that a PQ build filled
C14_Witness ==
    /\ lastCall.op = "fetch"
    /\ fetched.use_pq
    /\ fetched.use_bq
    /\ GetStorageType(fetched) = "PqCompression"
    /\ trainings = 1

\* C15: right after MetaPage::create page 0 holds zero init-id and quantizer
\* fields, and a fetch returns a MetaPage without init ids and without quantizer
\* pointer whose other fields are the dimensions and the options passed in.
C15_CreateWritesFreshMetaPage ==
    (lastCall.op = "ambuild" /\ lastCall.kind = "scanning") =>
        /\ page0.type = "Meta"
        /\ page0.body.init_ids_block_number = 0
        /\ page0.body.init_ids_offset = 0
        /\ page0.body.pq_block_number = 0
        /\ page0.body.pq_block_offset = 0
        /\ FetchOk(page0)
        /\ FetchPage(page0) = page0
        /\ LET m == FetchMeta(page0)
           IN /\ GetInitIds(m) = <<>>
              /\ GetPqPointer(m) = <<>>
              /\ m.num_dimensions = dims
              /\ m.num_neighbors = opt.num_neighbors
              /\ m.search_list_size = opt.search_list_size
              /\ m.max_alpha = opt.max_alpha
              /\ m.use_pq = opt.use_pq
              /\ m.pq_vector_length = opt.pq_vector_length
              /\ m.use_bq = opt.use_bq
              /\ m = fetched

\* a meta page just created for a BQ index with fewer neighbors than the build's
\* search list size
C15_Witness ==
    /\ lastCall.op = "ambuild"
    /\ lastCall.kind = "scanning"
    /\ opt.use_bq
    /\ opt.num_neighbors < opt.search_list_size
    /\ page0.type = "Meta"

\* C16: a fetch that finds page 0 in the MetaV1 layout rewrites it in the new
\* layout and returns a MetaPage of version 2 with every field of the old layout
\* unchanged; a later fetch reads the same value back from page 0.
C16_MigrationPreservesFields ==
    [][ (lastCall'.op = "fetch" /\ page0.type = "MetaV1") =>
            /\ lastCall'.kind = "ok"
            /\ fetched'.magic_number = TSV_MAGIC_NUMBER
            /\ fetched'.version = TSV_VERSION
            /\ fetched'.num_dimensions = page0.contents.num_dimensions
            /\ fetched'.num_neighbors = page0.contents.num_neighbors
            /\ fetched'.search_list_size = page0.contents.search_list_size
            /\ fetched'.max_alpha = page0.contents.max_alpha
            /\ fetched'.init_ids_block_number = page0.contents.init_ids_block_number
            /\ fetched'.init_ids_offset = page0.contents.init_ids_offset
            /\ fetched'.use_pq = page0.contents.use_pq
            /\ fetched'.pq_vector_length = page0.contents.pq_vector_length
            /\ fetched'.pq_block_number = page0.contents.pq_block_number
            /\ fetched'.pq_block_offset = page0.contents.pq_block_offset
            /\ page0'.type = "Meta"
            /\ page0'.header.version = TSV_VERSION
            /\ FetchOk(page0')
            /\ FetchPage(page0') = page0'
            /\ FetchMeta(page0') = fetched'
      ]_vars

\* a migrated meta page of a PQ index with a node: init id and quantizer pointer set
C16_Witness ==
    /\ lastCall.op = "fetch"
    /\ lastCall.arg = 1
    /\ fetched.use_pq
    /\ GetInitIds(fetched) # <<>>
    /\ GetPqPointer(fetched) # <<>>
    /\ page0.type = "Meta"

\* C17: from a page 0 in the MetaV1 layout, the first fetch takes the migration
\* branch and no later fetch does: the page type is Meta with version 2 after it
\* and never MetaV1 again.
C17_MigratesOnce ==
    /\ [](migrations <= 1)
    /\ []((migrations = 1) =>
             (page0.type = "Meta" /\ page0.header.version = TSV_VERSION))
    /\ [][ (page0.type = "Meta") =>
               (page0'.type = "Meta" /\ migrations' = migrations) ]_vars
    /\ [][ (page0.type = "MetaV1"
              /\ \/ lastCall'.op = "fetch"
                 \/ /\ lastCall'.op = "aminsert"
                    /\ Len(heap') = Len(heap) + 1
                    /\ heap'[Len(heap')] # NullVec) =>
               /\ migrations = 0
               /\ migrations' = 1
               /\ page0'.type = "Meta" ]_vars

\* a fetch that skipped the migration branch on a page an earlier fetch migrated
C17_Witness ==
    /\ migrations = 1
    /\ lastCall.op = "fetch"
    /\ lastCall.kind = "ok"
    /\ lastCall.arg = 0
    /\ page0.type = "Meta"

C19_UpdatesTouchOnlyTheirFields ==
    [][ /\ (page0.type = "Meta" /\ lastCall'.op \in {"update_init_ids", "build_callback",
                                                     "aminsert"}) =>
               page0' = [page0 EXCEPT
                           !.body.init_ids_block_number = page0'.body.init_ids_block_number,
                           !.body.init_ids_offset = page0'.body.init_ids_offset]
        /\ (lastCall'.op = "update_pq_pointer") =>
               page0' = [page0 EXCEPT
                           !.body.pq_block_number = page0'.body.pq_block_number,
                           !.body.pq_block_offset = page0'.body.pq_block_offset]
      ]_vars

\* an update_pq_pointer that moved the quantizer pointer of an index with an init id
C19_Witness ==
    /\ lastCall.op = "update_pq_pointer"
    /\ page0.body.pq_block_offset # QuantizerPointer.offset
    /\ GetInitIds(page0.body) # <<>>
    /\ page0.body.use_pq

\* C20: the dimensions and the number of neighbors stored in page 0 keep the
\* values written at creation, through fetch, migration, both updates, build
\* callbacks, finalize and inserts.
C20_DimsAndNeighborsFixed ==
    /\ (page0.type = "Meta") =>
           /\ page0.body.num_dimensions = dims
           /\ page0.body.num_neighbors = opt.num_neighbors
    /\ (page0.type = "MetaV1") =>
           /\ page0.contents.num_dimensions = dims
           /\ page0.contents.num_neighbors = opt.num_neighbors

\* a migrated index after an insert and a change of the init id
C20_Witness ==
    /\ migrations = 1
    /\ lastCall.op = "update_init_ids"
    /\ Len(nodes) >= 2
    /\ GetInitIds(page0.body) = <<IndexPointerOf(2)>>
    /\ opt.num_neighbors < opt.search_list_size

\* C21: update_init_ids and update_pq_pointer run under the exclusive lock of
\* page 0: a reader finds on page 0 only pointers that a committed update wrote
\* whole, and with no update running page 0 holds the last committed init id and
\* the last committed quantizer pointer.
C21_MetaUpdatesAtomic ==
    /\ observed.init_ids \in LatchPointers \cup {ItemPointer(0, 0)}
    /\ observed.pq_pointer \in LatchPointers \cup {ItemPointer(0, 0)}
    /\ (lastCall.op = "read") => (observed = committed)
    /\ (latch = 0 /\ page0.type = "Meta") => (PointersOn(page0) = committed)
    /\ \A b \in Backends : (backend[b].pc # "idle") => (latch = b)

\* a backend half way through update_init_ids, with a quantizer pointer that
\* another update committed and an init id that a reader saw before
C21_Witness ==
    \E b \in Backends :
        /\ backend[b].pc = "offset"
        /\ backend[b].op = "update_init_ids"
        /\ PointersOn(page0).init_ids \notin LatchPointers
        /\ committed.pq_pointer \in LatchPointers
        /\ observed.init_ids \in LatchPointers
        /\ observed.pq_pointer \in LatchPointers

\* C22: get_max_neighbors_during_build returns ceil(num_neighbors * 1.3): the
\* least m with 10 * m >= 13 * num_neighbors, which is at least num_neighbors.
C22_SlackIsCeiling ==
    (page0.type = "Meta") =>
        LET n == page0.body.num_neighbors
            m == GetMaxNeighborsDuringBuild(page0.body)
        IN /\ 10 * m >= GRAPH_SLACK_FACTOR_X10 * n
           /\ 10 * (m - 1) < GRAPH_SLACK_FACTOR_X10 * n
           /\ m >= n
           /\ MaxNeighborsOfStore("Builder", page0.body) = m

\* a build with a num_neighbors whose product with 1.3 is a whole number, so
\* that the rounding of the f64 product decides the result
C22_Witness ==
    /\ phase = "build"
    /\ Len(nodes) = 2
    /\ page0.body.num_neighbors = MaxSlackNeighbors
    /\ GetMaxNeighborsDuringBuild(graph_meta) * 10 = GRAPH_SLACK_FACTOR_X10 * MaxSlackNeighbors

\* C23: every build callback of the second pass makes the per-row build context
\* current on entry and, on every way out (a failure or an interrupt included),
\* makes the previous context current again and resets the build context: when
\* a callback has ended, the caller's context is the current one.
C23_ContextRestoredOnEveryExit ==
    (lastCall.op = "build_callback") => current_context = "caller"

\* C24: every row of the training pass, every row of the insert pass and every
\* turn of the loop of next checks for interrupts: with an interrupt pending the
\* step ends as interrupted, and the row is not counted, gets no node and
\* changes no neighbor list.
C24_EveryStepPolls ==
    [][ ( /\ interrupt_pending
          /\ \/ scanpos' = scanpos + 1
             \/ /\ pc \in {"idle", "next"}
                /\ lastCall'.op = "amgettuple"
                /\ pc' = "pin" \/ lastCall'.kind = "false" )
        => /\ lastCall'.kind = "interrupted"
           /\ UNCHANGED <<ntuples, nodes, builder>> ]_vars

\* C25: aminsert of a non-null vector, on an index of any of the three storage
\* types, appends exactly one node, on a page of the page type of the storage
\* the meta page selects, and links it through the Disk neighbor store: the
\* Builder store is not touched and no node gets more than num_neighbors
\* neighbors; the trained quantizer is left as it is, and the call returns false.
C25_InsertCreatesOneDiskNode ==
    [][ ( /\ lastCall'.op = "aminsert"
          /\ Len(heap') = Len(heap) + 1
          /\ heap'[Len(heap')] # NullVec )
        => /\ Len(nodes') = Len(nodes) + 1
           /\ nodes'[Len(nodes')].vec = heap'[Len(heap')]
           /\ nodes'[Len(nodes')].heap_pointer = HeapPointerOf(Len(heap'))
           /\ nodes'[Len(nodes')].page_type = StoragePageType(GetStorageType(fetched'))
           /\ \A i \in DOMAIN nodes : /\ nodes'[i].vec = nodes[i].vec
                                      /\ nodes'[i].page_type = nodes[i].page_type
           /\ builder' = builder
           /\ \A i \in DOMAIN nodes' : Len(nodes'[i].nbrs) <= fetched'.num_neighbors
           /\ samples' = samples
           /\ trainings' = trainings
           /\ GetPqPointer(GetMetaFromPage(page0')) = GetPqPointer(FetchMeta(page0))
           /\ lastCall'.kind = "false" ]_vars

\* a BQ index after an insert: four nodes, the new one linked, and the Builder
\* lists of the build still in place
C25_Witness ==
    /\ lastCall.op = "aminsert"
    /\ heap[Len(heap)] # NullVec
    /\ GetStorageType(fetched) = "BqSpeedup"
    /\ Len(nodes) = MaxRows + MaxInserts
    /\ nodes[Len(nodes)].nbrs # <<>>
    /\ DOMAIN builder = 1 .. MaxRows

\* C26: the search list size of a scan is the runtime setting
\* query_search_list_size as amrescan reads it, not the search_list_size of the
\* meta page, and it stays the same for every call of next of that scan even
\* when the setting changes in between.
C26_SearchListSizeFromSetting ==
    [][ /\ (lastCall'.op = "amrescan" /\ lastCall'.kind = "ok" /\ rescans' = rescans + 1)
            => iter'.search_list_size = query_search_list_size
        /\ (storage = "iter" /\ storage' = "iter" /\ rescans' = rescans)
            => iter'.search_list_size = iter.search_list_size ]_vars

\* next has returned a tuple in a scan whose search list size is neither the
\* present setting nor the search_list_size of the index
C26_Witness ==
    /\ lastCall.op = "amgettuple"
    /\ lastCall.kind = "true"
    /\ Len(returned) > 1
    /\ iter.search_list_size # query_search_list_size
    /\ iter.search_list_size # GetMetaFromPage(page0).search_list_size

\* C27: after MetaPage::create, fetch, update_init_ids and update_pq_pointer, in
\* any order and number, page 0 has type Meta, its header item is at offset 1
\* and its body item at offset 2, and both carry the magic number and version 2.
C27_MetaPageLayout ==
    /\ ( \/ lastCall.op = "ambuild" /\ lastCall.kind \in {"scanning", "ok"}
         \/ lastCall.op = "fetch" /\ lastCall.kind = "ok"
         \/ lastCall.op \in {"update_init_ids", "update_pq_pointer"} )
       => page0.type = "Meta"
    /\ (page0.type = "Meta") =>
           /\ page0.header_offset = META_HEADER_OFFSET
           /\ page0.body_offset = META_OFFSET
           /\ page0.header.magic_number = TSV_MAGIC_NUMBER
           /\ page0.header.version = TSV_VERSION
           /\ page0.body.magic_number = TSV_MAGIC_NUMBER
           /\ page0.body.version = TSV_VERSION

\* a migrated PQ index after an update of the quantizer pointer and then an
\* update of the init ids
C27_Witness ==
    /\ lastCall.op = "update_init_ids"
    /\ migrations = 1
    /\ page0.body.use_pq
    /\ page0.body.pq_block_offset # QuantizerPointer.offset
    /\ page0.header_offset < page0.body_offset

\* C28: after finalize the neighbor list written for a node does not contain the
\* node itself, contains no node twice, and contains only nodes that the build
\* created (entries of the Builder store).
C28_FinalizedListsWellFormed ==
    (phase = "built") =>
        \A i \in DOMAIN nodes :
            /\ i \notin Range(nodes[i].nbrs)
            /\ Cardinality(Range(nodes[i].nbrs)) = Len(nodes[i].nbrs)
            /\ Range(nodes[i].nbrs) \subseteq DOMAIN builder

\* a finalized index of MaxTraverseRows nodes in which a Builder list was pruned
C28_Witness ==
    /\ phase = "built"
    /\ Len(nodes) = MaxTraverseRows
    /\ \E i \in DOMAIN builder : Len(builder[i]) > graph_meta.num_neighbors
    /\ \A i \in DOMAIN nodes : nodes[i].nbrs # <<>>

\* C29 as stated: finalize prunes a Builder list if and only if it is longer than
\* num_neighbors, the pruned list has exactly num_neighbors entries, a list of
\* at most num_neighbors entries is written unchanged, and the Builder store
\* keeps its lists.
C29_PrunedToExactlyNumNeighbors ==
    [][ (phase = "build" /\ lastCall'.op = "ambuild") =>
            /\ builder' = builder
            /\ \A i \in DOMAIN builder :
                  IF Len(builder[i]) > graph_meta.num_neighbors
                  THEN Len(nodes'[i].nbrs) = graph_meta.num_neighbors
                  ELSE nodes'[i].nbrs = builder[i] ]_vars

\* C29 amended: finalize prunes a Builder list if and only if it is longer than
\* num_neighbors; the pruned list has at least one and at most num_neighbors
\* entries, all taken from the Builder list; a list of at most num_neighbors
\* entries is written unchanged, and the Builder store keeps its lists.
C29_PrunedToAtMostNumNeighbors ==
    [][ (phase = "build" /\ lastCall'.op = "ambuild") =>
            /\ builder' = builder
            /\ \A i \in DOMAIN builder :
                  IF Len(builder[i]) > graph_meta.num_neighbors
                  THEN /\ Len(nodes'[i].nbrs) >= 1
                       /\ Len(nodes'[i].nbrs) <= graph_meta.num_neighbors
                       /\ Range(nodes'[i].nbrs) \subseteq Range(builder[i])
                  ELSE nodes'[i].nbrs = builder[i] ]_vars

\* a finalized index with a list pruned to fewer than num_neighbors entries next
\* to a list written as the Builder store held it
C29_Witness ==
    /\ phase = "built"
    /\ \E i \in DOMAIN builder :
          /\ Len(builder[i]) > graph_meta.num_neighbors
          /\ Len(nodes[i].nbrs) < graph_meta.num_neighbors
    /\ \E i \in DOMAIN builder : builder[i] # <<>> /\ nodes[i].nbrs = builder[i]

\* C30: robust prune of a candidate set V for a node, with target R and slack
\* alpha >= 1, returns candidates of V only, at most R of them, in ascending
\* order of distance to the node (ties by IndexPointer), the closest candidate
\* first when V is not empty, and no returned p after a returned p* with
\* alpha * dist(p*, p) <= dist(node, p).
C30_RobustPrune ==
    \A i \in DOMAIN nodes, R \in 1 .. MaxNumNeighbors + 1, alpha \in Alphas :
        \A V \in SUBSET (DOMAIN nodes \ {i}) :
            LET vecs == Vecs(nodes)
                d(c) == Distance(vecs[i], vecs[c])
                out == PruneNeighbors(V, vecs, vecs[i],
                                      [graph_meta EXCEPT !.num_neighbors = R,
                                                         !.max_alpha = alpha])
            IN /\ Range(out) \subseteq V
               /\ Len(out) <= R
               /\ \A k, l \in DOMAIN out :
                     k < l => (d(out[k]) < d(out[l])
                                  \/ (d(out[k]) = d(out[l]) /\ out[k] < out[l]))
               /\ (V # {}) =>
                     /\ out # <<>>
                     /\ \A c \in V : d(out[1]) <= d(c)
               /\ \A k, l \in DOMAIN out :
                     k < l => ~(alpha * Distance(vecs[out[k]], vecs[out[l]])
                                   <= 10 * d(out[l]))

\* the build has pruned for a node with a candidate that a closer kept
\* candidate covers, and with two candidates at the same distance
C30_Witness ==
    /\ Len(nodes) = MaxTraverseRows
    /\ \E i \in DOMAIN builder :
          \E a, b, c \in DOMAIN nodes \ {i} :
              /\ a \in Range(builder[i])
              /\ b \notin Range(builder[i])
              /\ a # c
              /\ Distance(nodes[i].vec, nodes[a].vec) = Distance(nodes[i].vec, nodes[c].vec)
              /\ Distance(nodes[i].vec, nodes[a].vec) < Distance(nodes[i].vec, nodes[b].vec)
              /\ graph_meta.max_alpha * Distance(nodes[a].vec, nodes[b].vec)
                    <= 10 * Distance(nodes[i].vec, nodes[b].vec)

\* C31: on every graph, also one with cycles and tombstoned nodes, a call of
\* next comes to its end, and a scan whose next is called again and again gets
\* None; within a scan no node is expanded twice, no node is consumed twice and
\* no heap pointer is returned twice.
C31_ScanTerminates ==
    /\ [](storage = "iter" =>
             /\ iter.visited \subseteq iter.seen
             /\ iter.seen \subseteq DOMAIN nodes
             /\ iter.current <= Cardinality(iter.seen)
             /\ Cardinality(Range(returned)) = Len(returned))
    /\ [][ (storage = "iter" /\ storage' = "iter" /\ rescans' = rescans) =>
               /\ iter.visited \subseteq iter'.visited
               /\ iter.seen \subseteq iter'.seen
               /\ Range(iter'.cands) \cap iter.seen \subseteq Range(iter.cands) ]_vars
    /\ (pc # "idle") ~> (pc = "idle")
    /\ (scan = "open" /\ storage = "iter")
          ~> (lastCall.op = "amgettuple" /\ lastCall.kind = "false")

\* a scan over a graph with a cycle and a tombstoned node that has returned the
\* other nodes and then None
C31_Witness ==
    /\ lastCall.op = "amgettuple"
    /\ lastCall.kind = "false"
    /\ Len(nodes) = MaxRows
    /\ \E i, j \in DOMAIN nodes : i # j /\ j \in Range(nodes[i].nbrs) /\ i \in Range(nodes[j].nbrs)
    /\ \E i \in DOMAIN nodes : IsDeleted(nodes[i].heap_pointer)
    /\ Len(returned) = MaxRows - 1
    /\ iter.current = MaxRows

\* C32: in the second pass of a build and in a single-row insert the node of
\* the row is on the tape, with its IndexPointer, when graph.insert links it:
\* no neighbor list, in the Builder store or on disk, and no init id ever
\* points to a node that has not been written.
C32_NoDanglingNeighbor ==
    /\ DOMAIN builder \subseteq DOMAIN nodes
    /\ \A i \in DOMAIN builder : Range(builder[i]) \subseteq DOMAIN nodes
    /\ \A i \in DOMAIN nodes : Range(nodes[i].nbrs) \subseteq DOMAIN nodes
    /\ (page0.type = "Meta") =>
           \A ip \in Range(GetInitIds(page0.body)) :
               \E i \in DOMAIN nodes : IndexPointerOf(i) = ip
    /\ (page0.type = "Meta" /\ nodes # <<>>) => GetInitIds(page0.body) # <<>>

\* a PQ index in which the node of an insert is the neighbor of a node of the
\* build, whose last node is in a Builder list
C32_Witness ==
    /\ lastCall.op = "aminsert"
    /\ GetStorageType(fetched) = "PqCompression"
    /\ \E i \in DOMAIN nodes : Len(nodes) \in Range(nodes[i].nbrs)
    /\ \E i \in DOMAIN builder : (Len(nodes) - 1) \in Range(builder[i])

\* C33: a fetch fails, returns no MetaPage and leaves page 0 as it is when page 0
\* is not of type MetaV1 and its header item or its body item carries another
\* magic number or a version other than 2, and when page 0 is of type MetaV1
\* and its contents carry another magic number or a version other than 1; the
\* same holds for the fetch inside aminsert, which then adds no node.
C33_FetchRejectsBadPage ==
    [][ ( /\ \/ lastCall'.op = "fetch"
             \/ lastCall'.op = "aminsert" /\ Len(heap') = Len(heap) + 1
          /\ IF page0.type = "MetaV1"
             THEN \/ page0.contents.magic_number # TSV_MAGIC_NUMBER
                  \/ page0.contents.version # TSV_VERSION_V1
             ELSE \/ page0.header.magic_number # TSV_MAGIC_NUMBER
                  \/ page0.header.version # TSV_VERSION
                  \/ page0.body.magic_number # TSV_MAGIC_NUMBER
                  \/ page0.body.version # TSV_VERSION )
        => /\ lastCall'.kind = "panic"
           /\ page0' = page0
           /\ fetched' = fetched
           /\ nodes' = nodes
           /\ migrations' = migrations ]_vars

\* a fetch has failed on a migrated page whose header is intact and whose body
\* carries a later version
C33_Witness ==
    /\ lastCall.op = "fetch"
    /\ lastCall.kind = "panic"
    /\ migrations = 1
    /\ page0.type = "Meta"
    /\ MetaPageValidHeaderOnly(page0)
    /\ page0.body.version = TSV_VERSION + 1
    /\ page0.body.magic_number = TSV_MAGIC_NUMBER

\* C34: update_init_ids with a list of one node pointer [ip] (block >= 1) makes
\* every later fetch return a MetaPage whose get_init_ids() is [ip], until the
\* next update_init_ids; a list of any other length is rejected and page 0 stays
\* as it is; get_init_ids is None exactly when both stored fields are zero.
C34_InitIdRoundTrip ==
    /\ [](\A b \in 0 .. 2, o \in 0 .. 2 :
             (GetInitIds([init_ids_block_number |-> b, init_ids_offset |-> o]) = <<>>)
                 <=> (b = 0 /\ o = 0))
    /\ []((page0.type = "Meta" /\ GetInitIds(page0.body) = <<>>) =>
             (page0.body.init_ids_block_number = 0 /\ page0.body.init_ids_offset = 0))
    /\ [][ \A init_ids \in UNION {[1 .. n -> {IndexPointerOf(i) : i \in DOMAIN nodes}] :
                                     n \in 0 .. 2} :
              MetaPageUpdateInitIds(init_ids) =>
                  IF Len(init_ids) = 1
                  THEN /\ init_ids[1].block_number >= 1
                       /\ lastCall'.kind = "ok"
                       /\ FetchOk(page0')
                       /\ GetInitIds(FetchMeta(page0')) = init_ids
                  ELSE /\ lastCall'.kind = "panic"
                       /\ page0' = page0 ]_vars
    /\ [][ (page0.type = "Meta" /\ GetInitIds(page0.body) # <<>>
              /\ lastCall'.op # "update_init_ids") =>
               /\ page0'.type = "Meta"
               /\ GetInitIds(page0'.body) = GetInitIds(page0.body) ]_vars
    /\ [][ (lastCall'.op = "fetch" /\ lastCall'.kind = "ok") =>
               /\ GetInitIds(fetched') = GetInitIds(page0'.body)
               /\ page0.type = "Meta" => GetInitIds(fetched') = GetInitIds(page0.body) ]_vars

\* a fetch has returned the second node as the init id that update_init_ids stored
\* in place of the first
C34_Witness ==
    /\ lastCall.op = "fetch"
    /\ lastCall.kind = "ok"
    /\ lastCall.arg = 0
    /\ Len(nodes) >= 2
    /\ GetInitIds(fetched) = <<IndexPointerOf(2)>>
    /\ fetched.init_ids_block_number >= 1

\* C35: migration is atomic with respect to the other writers of page 0: once
\* a backend has migrated the page, an init id or a quantizer pointer that
\* update_init_ids or update_pq_pointer has committed is what the unlatched
\* page carries, whatever rewrite another backend still has to do from the
\* MetaV1 contents it read.
C35_MigrationKeepsCommitted ==
    (latch = 0 /\ page0.type = "Meta") =>
        /\ committed.init_ids # ItemPointer(0, 0) =>
               PointersOn(page0).init_ids = committed.init_ids
        /\ committed.pq_pointer # ItemPointer(0, 0) =>
               PointersOn(page0).pq_pointer = committed.pq_pointer

\* C36: a scan holds at most one index-page pin between its calls, rescans
\* included: the pin of an iteration that returned a tuple and was not run to
\* exhaustion is released by the time the iterator of the next rescan returns
\* tuples.
C36_OnePinAcrossRescans ==
    (scan = "open" /\ pc = "idle") => BagCardinality(pins (+) orphan_pins) <= 1

\* C37: ambeginscan creates a scan state that points to no iterator; an
\* amgettuple, and an amendscan at a log level of DEBUG1 or below, on such a
\* scan state fails and returns no tuple; a successful amrescan leaves an
\* iterator that has consumed no item and holds no pin.
C37_ScanLifecycleOrder ==
    /\ []((scan = "open" /\ rescans = 0) => (storage = "null" /\ iter = NoIter))
    /\ [][ (lastCall'.op = "ambeginscan") =>
               (scan' = "open" /\ storage' = "null" /\ pins' = EmptyBag) ]_vars
    /\ [][ (scan = "open" /\ storage = "null" /\ lastCall'.op = "amgettuple") =>
               /\ lastCall'.kind = "panic"
               /\ scan' = "aborted"
               /\ pc' = "idle"
               /\ UNCHANGED <<storage, returned, pins>> ]_vars
    /\ [][ (scan = "open" /\ storage = "null" /\ lastCall'.op = "amendscan"
              /\ lastCall'.arg <= DEBUG1) =>
               (lastCall'.kind = "panic" /\ scan' = "aborted") ]_vars
    /\ [][ (rescans' = rescans + 1 /\ lastCall'.kind = "ok") =>
               /\ storage' = "iter"
               /\ iter'.current = 0
               /\ iter'.last_buffer = <<>>
               /\ pins' = EmptyBag
               /\ returned' = <<>> ]_vars

\* an amgettuple on a scan over a non-empty index has failed before any rescan
C37_Witness ==
    /\ lastCall.op = "amgettuple"
    /\ lastCall.kind = "panic"
    /\ scan = "aborted"
    /\ storage = "null"
    /\ rescans = 0
    /\ nodes # <<>>

\* C38: an index whose meta page was migrated from MetaV1 never has storage
\* type BqSpeedup: the migration yields use_bq = false, the storage type is
\* PqCompression if the old use_pq was true and Plain otherwise, and no later
\* meta page operation changes it.
C38_MigratedNeverBqSpeedup ==
    /\ [](migrations >= 1 =>
             /\ page0.type = "Meta"
             /\ ~page0.body.use_bq
             /\ GetStorageType(page0.body) # "BqSpeedup"
             /\ GetStorageType(fetched) # "BqSpeedup")
    /\ [][ (migrations' = migrations + 1) =>
               /\ page0.type = "MetaV1"
               /\ ~fetched'.use_bq
               /\ GetStorageType(fetched') = IF page0.contents.use_pq THEN "PqCompression"
                                             ELSE "Plain"
               /\ GetStorageType(page0'.body) = GetStorageType(fetched') ]_vars
    /\ [][ (migrations >= 1) =>
               /\ migrations' = migrations
               /\ GetStorageType(page0'.body) = GetStorageType(page0.body) ]_vars

\* a migrated index without product quantization has taken an insert and an
\* update of its quantizer pointer and reads as Plain
C38_Witness ==
    /\ migrations = 1
    /\ lastCall.op = "update_pq_pointer"
    /\ lastCall.kind = "ok"
    /\ Len(nodes) >= 2
    /\ page0.body.pq_block_number # 0
    /\ GetStorageType(page0.body) = "Plain"

====
